---- MODULE Spec2Model ----
(***************************************************************************)
(* SHT3x humidity/temperature sensor driver (src/src/SHT3x.c).             *)
(*                                                                         *)
(* The handle (SHT3x_Handler_t) is the only state the driver owns.  Every  *)
(* public function is one action; the adapter calls it makes (Send,        *)
(* Receive, Delay, Init, DeInit, CRC) are logged, in order and with their  *)
(* arguments and return values, in `calls`.  What the adapter returns is   *)
(* an input of the action.                                                 *)
(***************************************************************************)
EXTENDS Integers, Naturals, Sequences, FiniteSets, TLC

VARIABLES
  Handler,  \* the SHT3x_Handler_t the caller owns
  sensor,   \* measuring mode of the device, as changed by acknowledged commands
  op,       \* name of the call that has just returned ("none" between calls)
  args,     \* its arguments
  result,   \* its SHT3x_Result_t
  calls,    \* the adapter calls it made, in order
  old,      \* Handler, Sample and Status as they were when it was entered
  Sample,   \* the SHT3x_Sample_t handed to it, as it left it (NoArg if none)
  Status,   \* the uint16_t *Status handed to it, as it left it (NoArg if none)
  initOk    \* TRUE once a call of SHT3x_Init has returned SHT3x_OK

vars == <<Handler, sensor, op, args, result, calls, old, Sample, Status, initOk>>

(***************************************************************************)
(* Result codes and enumerations (src/src/include/SHT3x.h).                *)
(***************************************************************************)
SHT3x_OK == 0
SHT3x_FAIL == 1
SHT3x_INVALID_PARAM == 2
SHT3x_CRC_ERROR == 3
SHT3x_NO_DATA == 4

SHT3x_MODE_SINGLESHOT == 0
SHT3x_MODE_PERIODIC == 1
SHT3x_MODE_ART == 2

SHT3x_SPEED_05MPS == 0
SHT3x_SPEED_1MPS == 1
SHT3x_SPEED_2MPS == 2
SHT3x_SPEED_4MPS == 3
SHT3x_SPEED_10MPS == 4

SHT3x_REPEATABILITY_LOW == 0
SHT3x_REPEATABILITY_MEDIUM == 1
SHT3x_REPEATABILITY_HIGH == 2

Modes == {SHT3x_MODE_SINGLESHOT, SHT3x_MODE_PERIODIC, SHT3x_MODE_ART}

Speeds ==
  {SHT3x_SPEED_05MPS, SHT3x_SPEED_1MPS, SHT3x_SPEED_2MPS, SHT3x_SPEED_4MPS,
   SHT3x_SPEED_10MPS}

Repeatabilities ==
  {SHT3x_REPEATABILITY_LOW, SHT3x_REPEATABILITY_MEDIUM, SHT3x_REPEATABILITY_HIGH}

(***************************************************************************)
(* Private constants (src/src/SHT3x.c).  All values are bytes.             *)
(***************************************************************************)
SHT3X_I2C_ADDRESS_A == 68  \* 0x44
SHT3X_I2C_ADDRESS_B == 69  \* 0x45

SHT3X_COMMAND_SINGLESHOT_DISABLE_MSB == 36         \* 0x24
SHT3X_COMMAND_SINGLESHOT_DISABLE_HIGH_LSB == 0     \* 0x00
SHT3X_COMMAND_SINGLESHOT_DISABLE_MEDIUM_LSB == 11  \* 0x0B
SHT3X_COMMAND_SINGLESHOT_DISABLE_LOW_LSB == 22     \* 0x16

SHT3X_COMMAND_PERIODIC_05MPS_MSB == 32         \* 0x20
SHT3X_COMMAND_PERIODIC_05MPS_HIGH_LSB == 50    \* 0x32
SHT3X_COMMAND_PERIODIC_05MPS_MEDIUM_LSB == 36  \* 0x24
SHT3X_COMMAND_PERIODIC_05MPS_LOW_LSB == 47     \* 0x2F
SHT3X_COMMAND_PERIODIC_1MPS_MSB == 33          \* 0x21
SHT3X_COMMAND_PERIODIC_1MPS_HIGH_LSB == 48     \* 0x30
SHT3X_COMMAND_PERIODIC_1MPS_MEDIUM_LSB == 38   \* 0x26
SHT3X_COMMAND_PERIODIC_1MPS_LOW_LSB == 45      \* 0x2D
SHT3X_COMMAND_PERIODIC_2MPS_MSB == 34          \* 0x22
SHT3X_COMMAND_PERIODIC_2MPS_HIGH_LSB == 54     \* 0x36
SHT3X_COMMAND_PERIODIC_2MPS_MEDIUM_LSB == 32   \* 0x20
SHT3X_COMMAND_PERIODIC_2MPS_LOW_LSB == 43      \* 0x2B
SHT3X_COMMAND_PERIODIC_4MPS_MSB == 35          \* 0x23
SHT3X_COMMAND_PERIODIC_4MPS_HIGH_LSB == 52     \* 0x34
SHT3X_COMMAND_PERIODIC_4MPS_MEDIUM_LSB == 34   \* 0x22
SHT3X_COMMAND_PERIODIC_4MPS_LOW_LSB == 41      \* 0x29
SHT3X_COMMAND_PERIODIC_10MPS_MSB == 39         \* 0x27
SHT3X_COMMAND_PERIODIC_10MPS_HIGH_LSB == 55    \* 0x37
SHT3X_COMMAND_PERIODIC_10MPS_MEDIUM_LSB == 33  \* 0x21
SHT3X_COMMAND_PERIODIC_10MPS_LOW_LSB == 42     \* 0x2A

SHT3X_COMMAND_ART_MSB == 43  \* 0x2B
SHT3X_COMMAND_ART_LSB == 50  \* 0x32

SHT3X_COMMAND_FETCH_DATA_MSB == 224  \* 0xE0
SHT3X_COMMAND_FETCH_DATA_LSB == 0    \* 0x00

SHT3X_COMMAND_STOP_PERIODIC_MSB == 48   \* 0x30
SHT3X_COMMAND_STOP_PERIODIC_LSB == 147  \* 0x93

SHT3X_COMMAND_SOFT_RESET_MSB == 48   \* 0x30
SHT3X_COMMAND_SOFT_RESET_LSB == 162  \* 0xA2

SHT3X_COMMAND_HEATER_ENABLE_MSB == 48    \* 0x30
SHT3X_COMMAND_HEATER_ENABLE_LSB == 109   \* 0x6D
SHT3X_COMMAND_HEATER_DISABLE_MSB == 48   \* 0x30
SHT3X_COMMAND_HEATER_DISABLE_LSB == 102  \* 0x66

SHT3X_COMMAND_STATUS_READ_MSB == 243   \* 0xF3
SHT3X_COMMAND_STATUS_READ_LSB == 45    \* 0x2D
SHT3X_COMMAND_STATUS_CLEAR_MSB == 48   \* 0x30
SHT3X_COMMAND_STATUS_CLEAR_LSB == 65   \* 0x41

(***************************************************************************)
(* Bounds of the model.                                                    *)
(***************************************************************************)
\* Repeatability arguments are drawn from 0..MaxRepeatabilityArg: the three
\* enumerators and the values past the last one.
MaxRepeatabilityArg == 3

\* Speed arguments are drawn from 0..MaxSpeedArg: the five enumerators and the
\* values past the last one.
MaxSpeedArg == 5

RepeatabilityArgs == 0..MaxRepeatabilityArg
SpeedArgs == 0..MaxSpeedArg

(***************************************************************************)
(* The adapter.  A binding of the handle is NULL or the name of the        *)
(* function bound to it; SHT3x_CheckCRC is the driver's own default check. *)
(***************************************************************************)
NULL == "NULL"
NoArg == "NoArg"

\* int8_t values an adapter function returns: 0, -1 (failed), -3 (no ACK).
\* The driver compares what Send returns with 0 only; it tells -3 from the
\* other failures of Receive.
SendRets == {0, -1}
ReceiveRets == {0, -1, -3}

\* One logged adapter call.  data is the bytes written (Send) or delivered
\* (Receive), len the Len argument, ms the Delay argument.
Call(fn, addr, data, len, ms, ret) ==
  [fn |-> fn, addr |-> addr, data |-> data, len |-> len, ms |-> ms, ret |-> ret]

\* PlatformSend called with address A whatever the handle holds.
PlatformSend_FixedAddress(h, cmd, ret) == Call("Send", SHT3X_I2C_ADDRESS_A, cmd, 2, 0, ret)

PlatformSend(h, cmd, ret) == Call("Send", h.AddressI2C, cmd, 2, 0, ret)
PlatformReceive(h, buf, len, ret) == Call("Receive", h.AddressI2C, buf, len, 0, ret)
PlatformDelay(ms) == Call("Delay", 0, <<>>, 0, ms, 0)
PlatformInit(ret) == Call("Init", 0, <<>>, 0, 0, ret)
PlatformDeInit(ret) == Call("DeInit", 0, <<>>, 0, 0, ret)

\* What a public function hands back: the handle as it leaves it, its result
\* and the adapter calls it made.
Outcome(h, res, cs) == [h |-> h, res |-> res, calls |-> cs]

(***************************************************************************)
(* Measurement-mode functions.                                             *)
(***************************************************************************)
StopPeriodicCmd == <<SHT3X_COMMAND_STOP_PERIODIC_MSB, SHT3X_COMMAND_STOP_PERIODIC_LSB>>
SoftResetCmd == <<SHT3X_COMMAND_SOFT_RESET_MSB, SHT3X_COMMAND_SOFT_RESET_LSB>>
ARTCmd == <<SHT3X_COMMAND_ART_MSB, SHT3X_COMMAND_ART_LSB>>
FetchDataCmd == <<SHT3X_COMMAND_FETCH_DATA_MSB, SHT3X_COMMAND_FETCH_DATA_LSB>>
StatusReadCmd == <<SHT3X_COMMAND_STATUS_READ_MSB, SHT3X_COMMAND_STATUS_READ_LSB>>
StatusClearCmd == <<SHT3X_COMMAND_STATUS_CLEAR_MSB, SHT3X_COMMAND_STATUS_CLEAR_LSB>>
HeaterEnableCmd == <<SHT3X_COMMAND_HEATER_ENABLE_MSB, SHT3X_COMMAND_HEATER_ENABLE_LSB>>
HeaterDisableCmd == <<SHT3X_COMMAND_HEATER_DISABLE_MSB, SHT3X_COMMAND_HEATER_DISABLE_LSB>>

\* SHT3x_SetModeSingleShot that stores the repeatability and not the mode.
SetModeSingleShot_NoModeStore(h, Repeatability, sendRet) ==
  LET cs == <<PlatformSend(h, StopPeriodicCmd, sendRet)>> IN
  IF sendRet # 0
    THEN Outcome(h, SHT3x_FAIL, cs)
    ELSE Outcome([h EXCEPT !.Repeatability = Repeatability], SHT3x_OK, cs)

\* SHT3x_SetModeSingleShot that sends nothing when the handle is already in
\* single-shot mode.
SetModeSingleShot_SkipsStop(h, Repeatability, sendRet) ==
  IF h.Mode = SHT3x_MODE_SINGLESHOT
    THEN Outcome([h EXCEPT !.Repeatability = Repeatability], SHT3x_OK, <<>>)
  ELSE LET cs == <<PlatformSend(h, StopPeriodicCmd, sendRet)>> IN
       IF sendRet # 0
         THEN Outcome(h, SHT3x_FAIL, cs)
         ELSE Outcome([h EXCEPT !.Mode = SHT3x_MODE_SINGLESHOT,
                                !.Repeatability = Repeatability],
                      SHT3x_OK, cs)

\* SHT3x_SetModeSingleShot that also puts the speed back to its first value.
SetModeSingleShot_ResetsSpeed(h, Repeatability, sendRet) ==
  LET cs == <<PlatformSend(h, StopPeriodicCmd, sendRet)>> IN
  IF sendRet # 0
    THEN Outcome(h, SHT3x_FAIL, cs)
    ELSE Outcome([h EXCEPT !.Mode = SHT3x_MODE_SINGLESHOT,
                           !.Repeatability = Repeatability,
                           !.Speed = SHT3x_SPEED_05MPS],
                 SHT3x_OK, cs)

\* SHT3x_SetModeSingleShot: the stop-periodic command, then the two stores.
\* Repeatability is stored as passed; no range check is made.
SHT3x_SetModeSingleShot(h, Repeatability, sendRet) ==
  LET cs == <<PlatformSend(h, StopPeriodicCmd, sendRet)>> IN
  IF sendRet # 0
    THEN Outcome(h, SHT3x_FAIL, cs)
    ELSE Outcome([h EXCEPT !.Mode = SHT3x_MODE_SINGLESHOT,
                           !.Repeatability = Repeatability],
                 SHT3x_OK, cs)

\* ComandPeriodicMSB[Speed], for Speed one of the five enumerators.
ComandPeriodicMSB(Speed) ==
  CASE Speed = SHT3x_SPEED_05MPS -> SHT3X_COMMAND_PERIODIC_05MPS_MSB
    [] Speed = SHT3x_SPEED_1MPS -> SHT3X_COMMAND_PERIODIC_1MPS_MSB
    [] Speed = SHT3x_SPEED_2MPS -> SHT3X_COMMAND_PERIODIC_2MPS_MSB
    [] Speed = SHT3x_SPEED_4MPS -> SHT3X_COMMAND_PERIODIC_4MPS_MSB
    [] Speed = SHT3x_SPEED_10MPS -> SHT3X_COMMAND_PERIODIC_10MPS_MSB

\* ComandPeriodicLSB with the LOW and HIGH entries of the 2 mps case
\* exchanged.
ComandPeriodicLSB_Swapped(Speed) ==
  CASE Speed = SHT3x_SPEED_05MPS ->
         <<SHT3X_COMMAND_PERIODIC_05MPS_LOW_LSB,
           SHT3X_COMMAND_PERIODIC_05MPS_MEDIUM_LSB,
           SHT3X_COMMAND_PERIODIC_05MPS_HIGH_LSB>>
    [] Speed = SHT3x_SPEED_1MPS ->
         <<SHT3X_COMMAND_PERIODIC_1MPS_LOW_LSB,
           SHT3X_COMMAND_PERIODIC_1MPS_MEDIUM_LSB,
           SHT3X_COMMAND_PERIODIC_1MPS_HIGH_LSB>>
    [] Speed = SHT3x_SPEED_2MPS ->
         <<SHT3X_COMMAND_PERIODIC_2MPS_HIGH_LSB,
           SHT3X_COMMAND_PERIODIC_2MPS_MEDIUM_LSB,
           SHT3X_COMMAND_PERIODIC_2MPS_LOW_LSB>>
    [] Speed = SHT3x_SPEED_4MPS ->
         <<SHT3X_COMMAND_PERIODIC_4MPS_LOW_LSB,
           SHT3X_COMMAND_PERIODIC_4MPS_MEDIUM_LSB,
           SHT3X_COMMAND_PERIODIC_4MPS_HIGH_LSB>>
    [] Speed = SHT3x_SPEED_10MPS ->
         <<SHT3X_COMMAND_PERIODIC_10MPS_LOW_LSB,
           SHT3X_COMMAND_PERIODIC_10MPS_MEDIUM_LSB,
           SHT3X_COMMAND_PERIODIC_10MPS_HIGH_LSB>>

\* The three-entry array ComandPeriodicLSB as the switch on Speed fills it:
\* <<entry LOW, entry MEDIUM, entry HIGH>>.
ComandPeriodicLSB(Speed) ==
  CASE Speed = SHT3x_SPEED_05MPS ->
         <<SHT3X_COMMAND_PERIODIC_05MPS_LOW_LSB,
           SHT3X_COMMAND_PERIODIC_05MPS_MEDIUM_LSB,
           SHT3X_COMMAND_PERIODIC_05MPS_HIGH_LSB>>
    [] Speed = SHT3x_SPEED_1MPS ->
         <<SHT3X_COMMAND_PERIODIC_1MPS_LOW_LSB,
           SHT3X_COMMAND_PERIODIC_1MPS_MEDIUM_LSB,
           SHT3X_COMMAND_PERIODIC_1MPS_HIGH_LSB>>
    [] Speed = SHT3x_SPEED_2MPS ->
         <<SHT3X_COMMAND_PERIODIC_2MPS_LOW_LSB,
           SHT3X_COMMAND_PERIODIC_2MPS_MEDIUM_LSB,
           SHT3X_COMMAND_PERIODIC_2MPS_HIGH_LSB>>
    [] Speed = SHT3x_SPEED_4MPS ->
         <<SHT3X_COMMAND_PERIODIC_4MPS_LOW_LSB,
           SHT3X_COMMAND_PERIODIC_4MPS_MEDIUM_LSB,
           SHT3X_COMMAND_PERIODIC_4MPS_HIGH_LSB>>
    [] Speed = SHT3x_SPEED_10MPS ->
         <<SHT3X_COMMAND_PERIODIC_10MPS_LOW_LSB,
           SHT3X_COMMAND_PERIODIC_10MPS_MEDIUM_LSB,
           SHT3X_COMMAND_PERIODIC_10MPS_HIGH_LSB>>

\* Bytes a read past the end of ComandPeriodicLSB may yield.  The read is
\* undefined behaviour; any byte is possible, these stand for all of them.
StrayBytes == {48, 255}

\* cmd[] as lines 278-279 assemble it.  Repeatability indexes the array
\* unchecked: an index past its three entries reads `stray`.
PeriodicCmd(Speed, Repeatability, stray) ==
  <<ComandPeriodicMSB(Speed),
    IF Repeatability \in Repeatabilities
      THEN ComandPeriodicLSB(Speed)[Repeatability + 1]
      ELSE stray>>

\* SHT3x_SetModePeriodic storing mode, speed and repeatability before it
\* looks at what Send returned.
SetModePeriodic_StoreFirst(h, Speed, Repeatability, stray, sendRet) ==
  IF Speed \notin Speeds
    THEN Outcome(h, SHT3x_INVALID_PARAM, <<>>)
    ELSE Outcome([h EXCEPT !.Mode = SHT3x_MODE_PERIODIC,
                           !.Speed = Speed,
                           !.Repeatability = Repeatability],
                 IF sendRet # 0 THEN SHT3x_FAIL ELSE SHT3x_OK,
                 <<PlatformSend(h, PeriodicCmd(Speed, Repeatability, stray), sendRet)>>)

\* SHT3x_SetModePeriodic: the switch rejects a Speed outside the enumeration;
\* Repeatability is not checked.
SHT3x_SetModePeriodic(h, Speed, Repeatability, stray, sendRet) ==
  IF Speed \notin Speeds
    THEN Outcome(h, SHT3x_INVALID_PARAM, <<>>)
    ELSE LET cs == <<PlatformSend(h, PeriodicCmd(Speed, Repeatability, stray),
                                  sendRet)>> IN
         IF sendRet # 0
           THEN Outcome(h, SHT3x_FAIL, cs)
           ELSE Outcome([h EXCEPT !.Mode = SHT3x_MODE_PERIODIC,
                                  !.Speed = Speed,
                                  !.Repeatability = Repeatability],
                        SHT3x_OK, cs)

\* SHT3x_SetModeART that stores the periodic mode.
SetModeART_StoresPeriodic(h, sendRet) ==
  LET cs == <<PlatformSend(h, ARTCmd, sendRet)>> IN
  IF sendRet # 0
    THEN Outcome(h, SHT3x_FAIL, cs)
    ELSE Outcome([h EXCEPT !.Mode = SHT3x_MODE_PERIODIC], SHT3x_OK, cs)

\* SHT3x_SetModeART that stores the mode before it looks at the result of
\* the Send.
SetModeART_StoresOnFail(h, sendRet) ==
  Outcome([h EXCEPT !.Mode = SHT3x_MODE_ART],
          IF sendRet # 0 THEN SHT3x_FAIL ELSE SHT3x_OK,
          <<PlatformSend(h, ARTCmd, sendRet)>>)

\* SHT3x_SetModeART.
SHT3x_SetModeART(h, sendRet) ==
  LET cs == <<PlatformSend(h, ARTCmd, sendRet)>> IN
  IF sendRet # 0
    THEN Outcome(h, SHT3x_FAIL, cs)
    ELSE Outcome([h EXCEPT !.Mode = SHT3x_MODE_ART], SHT3x_OK, cs)

(***************************************************************************)
(* Control and status functions.                                           *)
(***************************************************************************)
\* SHT3x_SetAddressI2C without the shifted forms of the two addresses.
SetAddressI2C_NoShiftedForm(h, Address) ==
  IF Address = 0 \/ Address = SHT3X_I2C_ADDRESS_A
    THEN Outcome([h EXCEPT !.AddressI2C = SHT3X_I2C_ADDRESS_A], SHT3x_OK, <<>>)
  ELSE IF Address = 1 \/ Address = SHT3X_I2C_ADDRESS_B
    THEN Outcome([h EXCEPT !.AddressI2C = SHT3X_I2C_ADDRESS_B], SHT3x_OK, <<>>)
  ELSE Outcome(h, SHT3x_OK, <<>>)

\* SHT3x_SetAddressI2C: an Address matching neither group leaves AddressI2C
\* as it is.
SHT3x_SetAddressI2C(h, Address) ==
  IF \/ Address = 0
     \/ Address = SHT3X_I2C_ADDRESS_A
     \/ Address = SHT3X_I2C_ADDRESS_A * 2
    THEN Outcome([h EXCEPT !.AddressI2C = SHT3X_I2C_ADDRESS_A], SHT3x_OK, <<>>)
  ELSE IF \/ Address = 1
          \/ Address = SHT3X_I2C_ADDRESS_B
          \/ Address = SHT3X_I2C_ADDRESS_B * 2
    THEN Outcome([h EXCEPT !.AddressI2C = SHT3X_I2C_ADDRESS_B], SHT3x_OK, <<>>)
  ELSE Outcome(h, SHT3x_OK, <<>>)

\* SHT3x_Init calling the platform init before it checks the required
\* bindings.
Init_PlatformInitFirst(h, Address, initRet, stopRet, resetRet) ==
  LET h1 == SHT3x_SetAddressI2C(h, Address).h
      h2 == IF h1.PlatformCRC = NULL
              THEN [h1 EXCEPT !.PlatformCRC = "SHT3x_CheckCRC"]
              ELSE h1
      c0 == IF h1.PlatformInit # NULL THEN <<PlatformInit(initRet)>> ELSE <<>>
      ss == SHT3x_SetModeSingleShot(h2, SHT3x_REPEATABILITY_LOW, stopRet)
      c1 == c0 \o ss.calls \o <<PlatformSend(ss.h, SoftResetCmd, resetRet)>>
  IN
  IF h1.PlatformInit # NULL /\ initRet # 0
    THEN Outcome(h1, SHT3x_FAIL, c0)
  ELSE IF \/ h1.PlatformSend = NULL
          \/ h1.PlatformReceive = NULL
          \/ h1.PlatformDelay = NULL
    THEN Outcome(h1, SHT3x_INVALID_PARAM, c0)
  ELSE IF resetRet # 0
    THEN Outcome(ss.h, SHT3x_FAIL, c1)
  ELSE Outcome(ss.h, SHT3x_OK, c1 \o <<PlatformDelay(2)>>)

\* SHT3x_Init sending the soft reset before the stop-periodic command.
Init_ResetFirst(h, Address, initRet, stopRet, resetRet) ==
  LET h1 == SHT3x_SetAddressI2C(h, Address).h
      h2 == IF h1.PlatformCRC = NULL
              THEN [h1 EXCEPT !.PlatformCRC = "SHT3x_CheckCRC"]
              ELSE h1
      c0 == IF h2.PlatformInit # NULL THEN <<PlatformInit(initRet)>> ELSE <<>>
      c1 == c0 \o <<PlatformSend(h2, SoftResetCmd, resetRet)>>
      ss == SHT3x_SetModeSingleShot(h2, SHT3x_REPEATABILITY_LOW, stopRet)
  IN
  IF \/ h1.PlatformSend = NULL
     \/ h1.PlatformReceive = NULL
     \/ h1.PlatformDelay = NULL
    THEN Outcome(h1, SHT3x_INVALID_PARAM, <<>>)
  ELSE IF h2.PlatformInit # NULL /\ initRet # 0
    THEN Outcome(h2, SHT3x_FAIL, c0)
  ELSE IF resetRet # 0
    THEN Outcome(h2, SHT3x_FAIL, c1)
  ELSE Outcome(ss.h, SHT3x_OK, c1 \o ss.calls \o <<PlatformDelay(2)>>)

\* SHT3x_Init going on when the platform init returns nonzero.
Init_IgnoresPlatformInit(h, Address, initRet, stopRet, resetRet) ==
  LET h1 == SHT3x_SetAddressI2C(h, Address).h
      h2 == IF h1.PlatformCRC = NULL
              THEN [h1 EXCEPT !.PlatformCRC = "SHT3x_CheckCRC"]
              ELSE h1
      c0 == IF h2.PlatformInit # NULL THEN <<PlatformInit(initRet)>> ELSE <<>>
      ss == SHT3x_SetModeSingleShot(h2, SHT3x_REPEATABILITY_LOW, stopRet)
      c1 == c0 \o ss.calls \o <<PlatformSend(ss.h, SoftResetCmd, resetRet)>>
  IN
  IF \/ h1.PlatformSend = NULL
     \/ h1.PlatformReceive = NULL
     \/ h1.PlatformDelay = NULL
    THEN Outcome(h1, SHT3x_INVALID_PARAM, <<>>)
  ELSE IF resetRet # 0
    THEN Outcome(ss.h, SHT3x_FAIL, c1)
  ELSE Outcome(ss.h, SHT3x_OK, c1 \o <<PlatformDelay(2)>>)

\* SHT3x_Init.  The result of the inner SHT3x_SetModeSingleShot is dropped.
SHT3x_Init(h, Address, initRet, stopRet, resetRet) ==
  LET h1 == SHT3x_SetAddressI2C(h, Address).h
      h2 == IF h1.PlatformCRC = NULL
              THEN [h1 EXCEPT !.PlatformCRC = "SHT3x_CheckCRC"]
              ELSE h1
      c0 == IF h2.PlatformInit # NULL THEN <<PlatformInit(initRet)>> ELSE <<>>
      ss == SHT3x_SetModeSingleShot(h2, SHT3x_REPEATABILITY_LOW, stopRet)
      c1 == c0 \o ss.calls \o <<PlatformSend(ss.h, SoftResetCmd, resetRet)>>
  IN
  IF \/ h1.PlatformSend = NULL
     \/ h1.PlatformReceive = NULL
     \/ h1.PlatformDelay = NULL
    THEN Outcome(h1, SHT3x_INVALID_PARAM, <<>>)
  ELSE IF h2.PlatformInit # NULL /\ initRet # 0
    THEN Outcome(h2, SHT3x_FAIL, c0)
  ELSE IF resetRet # 0
    THEN Outcome(ss.h, SHT3x_FAIL, c1)
  ELSE Outcome(ss.h, SHT3x_OK, c1 \o <<PlatformDelay(2)>>)

\* SHT3x_DeInit that drops what the platform deinit returned.
DeInit_DropsResult(h, deinitRet) ==
  IF h.PlatformDeInit # NULL
    THEN Outcome(h, SHT3x_OK, <<PlatformDeInit(deinitRet)>>)
    ELSE Outcome(h, SHT3x_OK, <<>>)

\* SHT3x_DeInit.
SHT3x_DeInit(h, deinitRet) ==
  IF h.PlatformDeInit # NULL
    THEN Outcome(h, IF deinitRet # 0 THEN SHT3x_FAIL ELSE SHT3x_OK,
                 <<PlatformDeInit(deinitRet)>>)
    ELSE Outcome(h, SHT3x_OK, <<>>)

\* SHT3x_ClearStatus that sends its command a second time when the first Send
\* failed.
ClearStatus_Retries(h, sendRet) ==
  IF sendRet # 0
    THEN Outcome(h, SHT3x_FAIL, <<PlatformSend(h, StatusClearCmd, sendRet),
                                  PlatformSend(h, StatusClearCmd, sendRet)>>)
    ELSE Outcome(h, SHT3x_OK, <<PlatformSend(h, StatusClearCmd, sendRet)>>)

\* SHT3x_ClearStatus.
SHT3x_ClearStatus(h, sendRet) ==
  Outcome(h, IF sendRet # 0 THEN SHT3x_FAIL ELSE SHT3x_OK,
          <<PlatformSend(h, StatusClearCmd, sendRet)>>)

\* SHT3x_SetHeater that enables the heater for Heater == 1 only.
SetHeater_OnlyOne(h, Heater, sendRet) ==
  Outcome(h, IF sendRet # 0 THEN SHT3x_FAIL ELSE SHT3x_OK,
          <<PlatformSend(h, IF Heater = 1 THEN HeaterEnableCmd ELSE HeaterDisableCmd,
                         sendRet)>>)

\* SHT3x_SetHeater.
SHT3x_SetHeater(h, Heater, sendRet) ==
  Outcome(h, IF sendRet # 0 THEN SHT3x_FAIL ELSE SHT3x_OK,
          <<PlatformSend(h, IF Heater # 0 THEN HeaterEnableCmd ELSE HeaterDisableCmd,
                         sendRet)>>)

(***************************************************************************)
(* Reading a sample and the status register.                               *)
(***************************************************************************)
\* Iterations of the polling loop of SHT3x_ReadSample.
PollAttempts == 20

\* Divisor of SHT3x_ConvSample.
FullScale == 65535

\* A default check that rejects a zero CRC byte.
CheckCRC_RejectsZero(Data, DataCRC) == IF DataCRC = 0 THEN -1 ELSE 0

\* SHT3x_CheckCRC, the check SHT3x_Init binds when none is bound.
SHT3x_CheckCRC(Data, DataCRC) == 0

\* Handler->PlatformCRC(Data, DataCRC): the default check, or the bound one,
\* whose answer `ret` is the adapter's.
PlatformCRC(h, Data, DataCRC, ret) ==
  Call("CRC", 0, <<Data, DataCRC>>, 0, 0,
       IF h.PlatformCRC = "SHT3x_CheckCRC" THEN SHT3x_CheckCRC(Data, DataCRC) ELSE ret)

\* SHT3x_ConvSample with the scale factors of the two temperatures exchanged.
ConvSample_ScalesExchanged(s) ==
  [s EXCEPT !.HumidityPercent = s.HumRaw * 100,
            !.TempCelsius = s.TempRaw * 315 - 45 * FullScale,
            !.TempFahrenheit = s.TempRaw * 175 - 49 * FullScale]

\* SHT3x_ConvSample.  The three derived fields are kept exactly, as numerators
\* over FullScale: TempCelsius = TempRaw*175/65535 - 45 and so on.
SHT3x_ConvSample(s) ==
  [s EXCEPT !.HumidityPercent = s.HumRaw * 100,
            !.TempCelsius = s.TempRaw * 175 - 45 * FullScale,
            !.TempFahrenheit = s.TempRaw * 315 - 49 * FullScale]

\* The two bytes of a word taken low byte first.
Word_LowByteFirst(hi, lo) == lo * 256 + hi

\* (Buffer[i] << 8) | Buffer[i + 1], for bytes.
Word(hi, lo) == hi * 256 + lo

\* The polling loop with the delay taken before the result of the Receive is
\* looked at.
RECURSIVE PollLoop_DelayFirst(_, _, _, _)
PollLoop_DelayFirst(h, Counter, Buffer, rx) ==
  IF Counter >= PollAttempts
    THEN [calls |-> <<>>, Buffer |-> Buffer]
  ELSE IF Counter >= rx.nFail
    THEN [calls |-> <<PlatformReceive(h, rx.okBuf, 6, 0), PlatformDelay(1)>>,
          Buffer |-> rx.okBuf]
  ELSE LET rest == PollLoop_DelayFirst(h, Counter + 1, rx.failBuf, rx) IN
       [calls |-> <<PlatformReceive(h, rx.failBuf, 6, rx.failRet), PlatformDelay(1)>>
                    \o rest.calls,
        Buffer |-> rest.Buffer]

\* The polling loop, from iteration Counter on.  rx says what the adapter
\* does: its first rx.nFail Receive calls return rx.failRet and leave
\* rx.failBuf in Buffer, the next returns 0 and delivers rx.okBuf.
RECURSIVE PollLoop(_, _, _, _)
PollLoop(h, Counter, Buffer, rx) ==
  IF Counter >= PollAttempts
    THEN [calls |-> <<>>, Buffer |-> Buffer]
  ELSE IF Counter >= rx.nFail
    THEN [calls |-> <<PlatformReceive(h, rx.okBuf, 6, 0)>>, Buffer |-> rx.okBuf]
  ELSE LET rest == PollLoop(h, Counter + 1, rx.failBuf, rx) IN
       [calls |-> <<PlatformReceive(h, rx.failBuf, 6, rx.failRet), PlatformDelay(1)>>
                    \o rest.calls,
        Buffer |-> rest.Buffer]

ZeroBuffer == <<0, 0, 0, 0, 0, 0>>

\* What SHT3x_ReadSample hands back: as Outcome, with the caller's sample as
\* the function leaves it.
SampleOutcome(h, res, cs, s) == [h |-> h, res |-> res, calls |-> cs, sample |-> s]

\* Lines 386-397 with the humidity word checked before the temperature word.
DecodeSample_HumidityFirst(h, cs, Buffer, s, crcT, crcH) ==
  LET s1 == [s EXCEPT !.TempRaw = Word(Buffer[1], Buffer[2]),
                      !.HumRaw = Word(Buffer[4], Buffer[5])]
      cT == PlatformCRC(h, s1.TempRaw, Buffer[3], crcT)
      cH == PlatformCRC(h, s1.HumRaw, Buffer[6], crcH)
  IN
  IF cH.ret # 0
    THEN SampleOutcome(h, SHT3x_CRC_ERROR, cs \o <<cH>>, s1)
  ELSE IF cT.ret # 0
    THEN SampleOutcome(h, SHT3x_CRC_ERROR, cs \o <<cH, cT>>, s1)
  ELSE SampleOutcome(h, SHT3x_OK, cs \o <<cH, cT>>, SHT3x_ConvSample(s1))

\* Lines 386-397: decode Buffer, check the two CRCs, convert.
DecodeSample(h, cs, Buffer, s, crcT, crcH) ==
  LET s1 == [s EXCEPT !.TempRaw = Word(Buffer[1], Buffer[2]),
                      !.HumRaw = Word(Buffer[4], Buffer[5])]
      cT == PlatformCRC(h, s1.TempRaw, Buffer[3], crcT)
      cH == PlatformCRC(h, s1.HumRaw, Buffer[6], crcH)
  IN
  IF cT.ret # 0
    THEN SampleOutcome(h, SHT3x_CRC_ERROR, cs \o <<cT>>, s1)
  ELSE IF cH.ret # 0
    THEN SampleOutcome(h, SHT3x_CRC_ERROR, cs \o <<cT, cH>>, s1)
  ELSE SampleOutcome(h, SHT3x_OK, cs \o <<cT, cH>>, SHT3x_ConvSample(s1))

\* The single-shot commands with clock stretching, which the driver defines
\* and does not use.
SingleShotCmd_ClockStretch(Repeatability) ==
  <<44,
    CASE Repeatability = SHT3x_REPEATABILITY_LOW -> 16
      [] Repeatability = SHT3x_REPEATABILITY_MEDIUM -> 13
      [] Repeatability = SHT3x_REPEATABILITY_HIGH -> 6>>

\* The single-shot command for the stored repeatability (lines 337-355).
SingleShotCmd(Repeatability) ==
  <<SHT3X_COMMAND_SINGLESHOT_DISABLE_MSB,
    CASE Repeatability = SHT3x_REPEATABILITY_LOW ->
           SHT3X_COMMAND_SINGLESHOT_DISABLE_LOW_LSB
      [] Repeatability = SHT3x_REPEATABILITY_MEDIUM ->
           SHT3X_COMMAND_SINGLESHOT_DISABLE_MEDIUM_LSB
      [] Repeatability = SHT3x_REPEATABILITY_HIGH ->
           SHT3X_COMMAND_SINGLESHOT_DISABLE_HIGH_LSB>>

\* The test of line 367 on the low data bytes instead of the CRC bytes.
CrcBytesZero_DataBytes(Buffer) == Buffer[2] = 0 /\ Buffer[5] = 0

\* Line 367: Buffer[2] == 0 && Buffer[5] == 0, the two CRC bytes.
CrcBytesZero(Buffer) == Buffer[3] = 0 /\ Buffer[6] = 0

\* SHT3x_ReadSample that does not tell a bus NACK from other Receive failures.
ReadSample_NackIsFail(h, s, sendRet, rx, crcT, crcH) ==
  IF h.Mode = SHT3x_MODE_SINGLESHOT
    THEN IF h.Repeatability \notin Repeatabilities
           THEN SampleOutcome(h, SHT3x_INVALID_PARAM, <<>>, s)
         ELSE LET c0 == <<PlatformSend(h, SingleShotCmd(h.Repeatability), sendRet)>>
                  loop == PollLoop(h, 0, ZeroBuffer, rx)
              IN
              IF sendRet # 0
                THEN SampleOutcome(h, SHT3x_FAIL, c0, s)
              ELSE IF CrcBytesZero(loop.Buffer)
                THEN SampleOutcome(h, SHT3x_FAIL, c0 \o loop.calls, s)
              ELSE DecodeSample(h, c0 \o loop.calls, loop.Buffer, s, crcT, crcH)
    ELSE LET c0 == <<PlatformSend(h, FetchDataCmd, sendRet)>>
             rxRet == IF rx.nFail = 0 THEN 0 ELSE rx.failRet
             Buffer == IF rx.nFail = 0 THEN rx.okBuf ELSE rx.failBuf
             c1 == c0 \o <<PlatformReceive(h, Buffer, 6, rxRet)>>
         IN
         IF sendRet # 0
           THEN SampleOutcome(h, SHT3x_FAIL, c0, s)
         ELSE IF rxRet # 0
           THEN SampleOutcome(h, SHT3x_FAIL, c1, s)
         ELSE DecodeSample(h, c1, Buffer, s, crcT, crcH)

\* SHT3x_ReadSample that reports NoData in single-shot mode too, when the
\* attempts of the polling loop met a bus NACK.
ReadSample_NoDataInSingleShot(h, s, sendRet, rx, crcT, crcH) ==
  IF h.Mode = SHT3x_MODE_SINGLESHOT
    THEN IF h.Repeatability \notin Repeatabilities
           THEN SampleOutcome(h, SHT3x_INVALID_PARAM, <<>>, s)
         ELSE LET c0 == <<PlatformSend(h, SingleShotCmd(h.Repeatability), sendRet)>>
                  loop == PollLoop(h, 0, ZeroBuffer, rx)
              IN
              IF sendRet # 0
                THEN SampleOutcome(h, SHT3x_FAIL, c0, s)
              ELSE IF rx.nFail >= PollAttempts /\ rx.failRet = -3
                THEN SampleOutcome(h, SHT3x_NO_DATA, c0 \o loop.calls, s)
              ELSE IF CrcBytesZero(loop.Buffer)
                THEN SampleOutcome(h, SHT3x_FAIL, c0 \o loop.calls, s)
              ELSE DecodeSample(h, c0 \o loop.calls, loop.Buffer, s, crcT, crcH)
    ELSE LET c0 == <<PlatformSend(h, FetchDataCmd, sendRet)>>
             rxRet == IF rx.nFail = 0 THEN 0 ELSE rx.failRet
             Buffer == IF rx.nFail = 0 THEN rx.okBuf ELSE rx.failBuf
             c1 == c0 \o <<PlatformReceive(h, Buffer, 6, rxRet)>>
         IN
         IF sendRet # 0
           THEN SampleOutcome(h, SHT3x_FAIL, c0, s)
         ELSE IF rxRet = -3
           THEN SampleOutcome(h, SHT3x_NO_DATA, c1, s)
         ELSE IF rxRet # 0
           THEN SampleOutcome(h, SHT3x_FAIL, c1, s)
         ELSE DecodeSample(h, c1, Buffer, s, crcT, crcH)

\* SHT3x_ReadSample that measures with high repeatability when the stored
\* repeatability is none of the three.
ReadSample_DefaultsToHigh(h, s, sendRet, rx, crcT, crcH) ==
  IF h.Mode = SHT3x_MODE_SINGLESHOT
    THEN IF FALSE
           THEN SampleOutcome(h, SHT3x_INVALID_PARAM, <<>>, s)
         ELSE LET c0 == <<PlatformSend(h, SingleShotCmd(IF h.Repeatability \in Repeatabilities
                                                             THEN h.Repeatability
                                                             ELSE SHT3x_REPEATABILITY_HIGH), sendRet)>>
                  loop == PollLoop(h, 0, ZeroBuffer, rx)
              IN
              IF sendRet # 0
                THEN SampleOutcome(h, SHT3x_FAIL, c0, s)
              ELSE IF CrcBytesZero(loop.Buffer)
                THEN SampleOutcome(h, SHT3x_FAIL, c0 \o loop.calls, s)
              ELSE DecodeSample(h, c0 \o loop.calls, loop.Buffer, s, crcT, crcH)
    ELSE LET c0 == <<PlatformSend(h, FetchDataCmd, sendRet)>>
             rxRet == IF rx.nFail = 0 THEN 0 ELSE rx.failRet
             Buffer == IF rx.nFail = 0 THEN rx.okBuf ELSE rx.failBuf
             c1 == c0 \o <<PlatformReceive(h, Buffer, 6, rxRet)>>
         IN
         IF sendRet # 0
           THEN SampleOutcome(h, SHT3x_FAIL, c0, s)
         ELSE IF rxRet = -3
           THEN SampleOutcome(h, SHT3x_NO_DATA, c1, s)
         ELSE IF rxRet # 0
           THEN SampleOutcome(h, SHT3x_FAIL, c1, s)
         ELSE DecodeSample(h, c1, Buffer, s, crcT, crcH)

\* SHT3x_ReadSample that enters the polling loop although the Send failed.
ReadSample_PollsAfterFailedSend(h, s, sendRet, rx, crcT, crcH) ==
  IF h.Mode = SHT3x_MODE_SINGLESHOT
    THEN IF h.Repeatability \notin Repeatabilities
           THEN SampleOutcome(h, SHT3x_INVALID_PARAM, <<>>, s)
         ELSE LET c0 == <<PlatformSend(h, SingleShotCmd(h.Repeatability), sendRet)>>
                  loop == PollLoop(h, 0, ZeroBuffer, rx)
              IN
              IF sendRet # 0
                THEN SampleOutcome(h, SHT3x_FAIL, c0 \o loop.calls, s)
              ELSE IF CrcBytesZero(loop.Buffer)
                THEN SampleOutcome(h, SHT3x_FAIL, c0 \o loop.calls, s)
              ELSE DecodeSample(h, c0 \o loop.calls, loop.Buffer, s, crcT, crcH)
    ELSE LET c0 == <<PlatformSend(h, FetchDataCmd, sendRet)>>
             rxRet == IF rx.nFail = 0 THEN 0 ELSE rx.failRet
             Buffer == IF rx.nFail = 0 THEN rx.okBuf ELSE rx.failBuf
             c1 == c0 \o <<PlatformReceive(h, Buffer, 6, rxRet)>>
         IN
         IF sendRet # 0
           THEN SampleOutcome(h, SHT3x_FAIL, c0, s)
         ELSE IF rxRet = -3
           THEN SampleOutcome(h, SHT3x_NO_DATA, c1, s)
         ELSE IF rxRet # 0
           THEN SampleOutcome(h, SHT3x_FAIL, c1, s)
         ELSE DecodeSample(h, c1, Buffer, s, crcT, crcH)

\* SHT3x_ReadSample that stores the raw words before it looks at the result
\* of the Receive.
ReadSample_WritesRawFirst(h, s, sendRet, rx, crcT, crcH) ==
  IF h.Mode = SHT3x_MODE_SINGLESHOT
    THEN IF h.Repeatability \notin Repeatabilities
           THEN SampleOutcome(h, SHT3x_INVALID_PARAM, <<>>, s)
         ELSE LET c0 == <<PlatformSend(h, SingleShotCmd(h.Repeatability), sendRet)>>
                  loop == PollLoop(h, 0, ZeroBuffer, rx)
              IN
              IF sendRet # 0
                THEN SampleOutcome(h, SHT3x_FAIL, c0, s)
              ELSE IF CrcBytesZero(loop.Buffer)
                THEN SampleOutcome(h, SHT3x_FAIL, c0 \o loop.calls, s)
              ELSE DecodeSample(h, c0 \o loop.calls, loop.Buffer, s, crcT, crcH)
    ELSE LET c0 == <<PlatformSend(h, FetchDataCmd, sendRet)>>
             rxRet == IF rx.nFail = 0 THEN 0 ELSE rx.failRet
             Buffer == IF rx.nFail = 0 THEN rx.okBuf ELSE rx.failBuf
             c1 == c0 \o <<PlatformReceive(h, Buffer, 6, rxRet)>>
         IN
         IF sendRet # 0
           THEN SampleOutcome(h, SHT3x_FAIL, c0, s)
         ELSE IF rxRet = -3
           THEN SampleOutcome(h, SHT3x_NO_DATA, c1,
                              [s EXCEPT !.TempRaw = Word(Buffer[1], Buffer[2]),
                                        !.HumRaw = Word(Buffer[4], Buffer[5])])
         ELSE IF rxRet # 0
           THEN SampleOutcome(h, SHT3x_FAIL, c1, s)
         ELSE DecodeSample(h, c1, Buffer, s, crcT, crcH)

\* SHT3x_ReadSample.  s is the caller's sample on entry.
SHT3x_ReadSample(h, s, sendRet, rx, crcT, crcH) ==
  IF h.Mode = SHT3x_MODE_SINGLESHOT
    THEN IF h.Repeatability \notin Repeatabilities
           THEN SampleOutcome(h, SHT3x_INVALID_PARAM, <<>>, s)
         ELSE LET c0 == <<PlatformSend(h, SingleShotCmd(h.Repeatability), sendRet)>>
                  loop == PollLoop(h, 0, ZeroBuffer, rx)
              IN
              IF sendRet # 0
                THEN SampleOutcome(h, SHT3x_FAIL, c0, s)
              ELSE IF CrcBytesZero(loop.Buffer)
                THEN SampleOutcome(h, SHT3x_FAIL, c0 \o loop.calls, s)
              ELSE DecodeSample(h, c0 \o loop.calls, loop.Buffer, s, crcT, crcH)
    ELSE LET c0 == <<PlatformSend(h, FetchDataCmd, sendRet)>>
             rxRet == IF rx.nFail = 0 THEN 0 ELSE rx.failRet
             Buffer == IF rx.nFail = 0 THEN rx.okBuf ELSE rx.failBuf
             c1 == c0 \o <<PlatformReceive(h, Buffer, 6, rxRet)>>
         IN
         IF sendRet # 0
           THEN SampleOutcome(h, SHT3x_FAIL, c0, s)
         ELSE IF rxRet = -3
           THEN SampleOutcome(h, SHT3x_NO_DATA, c1, s)
         ELSE IF rxRet # 0
           THEN SampleOutcome(h, SHT3x_FAIL, c1, s)
         ELSE DecodeSample(h, c1, Buffer, s, crcT, crcH)

\* What SHT3x_ReadStatus hands back: as Outcome, with *Status as it leaves it.
StatusOutcome(h, res, cs, st) == [h |-> h, res |-> res, calls |-> cs, status |-> st]

\* SHT3x_ReadStatus that checks the CRC before it writes *Status.
ReadStatus_ChecksBeforeStore(h, st, sendRet, rxRet, Buffer, crc) ==
  LET c0 == <<PlatformSend(h, StatusReadCmd, sendRet)>>
      c1 == c0 \o <<PlatformReceive(h, Buffer, 3, rxRet)>>
      w == Word(Buffer[1], Buffer[2])
      cC == PlatformCRC(h, w, Buffer[3], crc)
  IN
  IF sendRet # 0
    THEN StatusOutcome(h, SHT3x_FAIL, c0, st)
  ELSE IF rxRet # 0
    THEN StatusOutcome(h, SHT3x_FAIL, c1, st)
  ELSE IF cC.ret # 0
    THEN StatusOutcome(h, SHT3x_CRC_ERROR, c1 \o <<cC>>, st)
  ELSE StatusOutcome(h, SHT3x_OK, c1 \o <<cC>>, w)

\* SHT3x_ReadStatus that goes on to the Receive after a failed Send.
ReadStatus_ReceivesAnyway(h, st, sendRet, rxRet, Buffer, crc) ==
  LET c0 == <<PlatformSend(h, StatusReadCmd, sendRet)>>
      c1 == c0 \o <<PlatformReceive(h, Buffer, 3, rxRet)>>
      w == Word(Buffer[1], Buffer[2])
      cC == PlatformCRC(h, w, Buffer[3], crc)
  IN
  IF sendRet # 0 \/ rxRet # 0
    THEN StatusOutcome(h, SHT3x_FAIL, c1, st)
  ELSE StatusOutcome(h, IF cC.ret # 0 THEN SHT3x_CRC_ERROR ELSE SHT3x_OK,
                     c1 \o <<cC>>, w)

\* SHT3x_ReadStatus.  st is *Status on entry; Buffer is the three bytes a
\* successful Receive delivers.
SHT3x_ReadStatus(h, st, sendRet, rxRet, Buffer, crc) ==
  LET c0 == <<PlatformSend(h, StatusReadCmd, sendRet)>>
      c1 == c0 \o <<PlatformReceive(h, Buffer, 3, rxRet)>>
      w == Word(Buffer[1], Buffer[2])
      cC == PlatformCRC(h, w, Buffer[3], crc)
  IN
  IF sendRet # 0
    THEN StatusOutcome(h, SHT3x_FAIL, c0, st)
  ELSE IF rxRet # 0
    THEN StatusOutcome(h, SHT3x_FAIL, c1, st)
  ELSE StatusOutcome(h, IF cC.ret # 0 THEN SHT3x_CRC_ERROR ELSE SHT3x_OK,
                     c1 \o <<cC>>, w)

(***************************************************************************)
(* The device.  Its measuring mode changes only with a command it has      *)
(* acknowledged (a Send that returned 0): stop-periodic and soft-reset put *)
(* it in single-shot (idle), one of the fifteen periodic start codes in    *)
(* periodic, the ART command in ART.  Every other command leaves it alone. *)
(***************************************************************************)
PeriodicCodes ==
  {PeriodicCmd(sp, rp, 0) : sp \in Speeds, rp \in Repeatabilities}

SensorStep(s, c) ==
  IF c.fn # "Send" \/ c.ret # 0 THEN s
  ELSE IF c.data = StopPeriodicCmd \/ c.data = SoftResetCmd THEN SHT3x_MODE_SINGLESHOT
  ELSE IF c.data \in PeriodicCodes THEN SHT3x_MODE_PERIODIC
  ELSE IF c.data = ARTCmd THEN SHT3x_MODE_ART
  ELSE s

RECURSIVE SensorAfter(_, _)
SensorAfter(s, cs) ==
  IF cs = <<>> THEN s ELSE SensorAfter(SensorStep(s, Head(cs)), Tail(cs))

(***************************************************************************)
(* Inputs.                                                                 *)
(***************************************************************************)
\* Address arguments: the six recognised encodings and two others.
AddressArgs == {0, 1, 68, 69, 136, 138, 7, 255}

\* Six-byte answers to a measurement read: a plausible measurement,
\* data with both CRC bytes zero, and data with one CRC byte zero.
SampleBuffers ==
  {<<102, 46, 255, 125, 19, 255>>, <<255, 255, 0, 1, 2, 0>>, <<0, 0, 0, 255, 255, 172>>}

\* Three-byte answers to a status read.
StatusBuffers == {<<128, 16, 225>>, <<0, 0, 0>>}

\* The caller's sample before a read: zeroed, or holding earlier values.
StartSamples ==
  {[TempRaw |-> 0, HumRaw |-> 0, TempCelsius |-> 0, TempFahrenheit |-> 0,
    HumidityPercent |-> 0],
   [TempRaw |-> 1, HumRaw |-> 2, TempCelsius |-> 3, TempFahrenheit |-> 4,
    HumidityPercent |-> 5]}

\* *Status before a read.
StartStatuses == {0, 4660}

\* What the adapter may do during the polling loop.
Rx(NFail, FailBufs, OkBufs) ==
  [nFail : NFail, failRet : ReceiveRets \ {0}, failBuf : FailBufs, okBuf : OkBufs]

\* The adapter behaviours the main specification draws from: the first
\* Receive succeeds, or none does.
RxCoarse ==
  Rx({0, PollAttempts}, {<<1, 2, 3, 4, 5, 6>>}, SampleBuffers)

\* Handles as the caller may have set them up: the bindings are the caller's;
\* the other fields hold whatever the memory held.
\* The optional bindings are all bound or all null; of the required ones at
\* most one is null.
Bindings ==
  {[PlatformInit |-> o, PlatformDeInit |-> o, PlatformCRC |-> o,
    PlatformSend |-> IF n = "Send" THEN NULL ELSE "Platform_Send",
    PlatformReceive |-> IF n = "Receive" THEN NULL ELSE "Platform_Receive",
    PlatformDelay |-> IF n = "Delay" THEN NULL ELSE "Platform_Delay"] :
     o \in {NULL, "Platform"}, n \in {"none", "Send", "Receive", "Delay"}}

NewHandler(b, a, m, rp, sp) ==
  [AddressI2C |-> a, Mode |-> m, Repeatability |-> rp, Speed |-> sp,
   PlatformInit |-> b.PlatformInit, PlatformDeInit |-> b.PlatformDeInit,
   PlatformSend |-> b.PlatformSend, PlatformReceive |-> b.PlatformReceive,
   PlatformDelay |-> b.PlatformDelay, PlatformCRC |-> b.PlatformCRC]

\* The binding an adapter call goes through.
Binding(h, fn) ==
  CASE fn = "Send" -> h.PlatformSend
    [] fn = "Receive" -> h.PlatformReceive
    [] fn = "Delay" -> h.PlatformDelay
    [] fn = "Init" -> h.PlatformInit
    [] fn = "DeInit" -> h.PlatformDeInit
    [] fn = "CRC" -> h.PlatformCRC

\* A call through a null binding does not return: the function has no outcome.
Returns(o) == \A i \in DOMAIN o.calls : Binding(o.h, o.calls[i].fn) # NULL

(***************************************************************************)
(* The state machine.                                                      *)
(***************************************************************************)
\* The fields of a handle no function has written yet: zeroed (as the
\* examples declare it, Handler = {0}) or left over.
StartFields ==
  {[AddressI2C |-> 0, Mode |-> SHT3x_MODE_SINGLESHOT,
    Repeatability |-> SHT3x_REPEATABILITY_LOW, Speed |-> SHT3x_SPEED_05MPS],
   [AddressI2C |-> 0, Mode |-> SHT3x_MODE_PERIODIC,
    Repeatability |-> SHT3x_REPEATABILITY_HIGH, Speed |-> SHT3x_SPEED_10MPS]}

Init ==
  /\ Handler \in {NewHandler(b, f.AddressI2C, f.Mode, f.Repeatability, f.Speed) :
                    b \in Bindings, f \in StartFields}
  /\ sensor \in Modes
  /\ op = "none"
  /\ args = <<>>
  /\ result = SHT3x_OK
  /\ calls = <<>>
  /\ old = [Handler |-> Handler, Sample |-> NoArg, Status |-> NoArg]
  /\ Sample = NoArg
  /\ Status = NoArg
  /\ initOk = FALSE

\* A call `name` with arguments a that came out as o.  Calls are made one
\* after the other.
Done(name, a, o) ==
  /\ op = "none"
  /\ Returns(o)
  /\ op' = name
  /\ args' = a
  /\ result' = o.res
  /\ calls' = o.calls
  /\ Handler' = o.h
  /\ sensor' = SensorAfter(sensor, o.calls)
  /\ initOk' = (initOk \/ (name = "Init" /\ o.res = SHT3x_OK))

NoObjects ==
  /\ old' = [Handler |-> Handler, Sample |-> NoArg, Status |-> NoArg]
  /\ Sample' = NoArg
  /\ Status' = NoArg

CallInit ==
  \E Address \in AddressArgs, initRet, stopRet, resetRet \in SendRets :
    /\ Done("Init", [Address |-> Address],
            SHT3x_Init(Handler, Address, initRet, stopRet, resetRet))
    /\ NoObjects

CallDeInit ==
  \E deinitRet \in SendRets :
    /\ Done("DeInit", <<>>, SHT3x_DeInit(Handler, deinitRet))
    /\ NoObjects

CallSetAddressI2C ==
  \E Address \in AddressArgs :
    /\ Done("SetAddressI2C", [Address |-> Address],
            SHT3x_SetAddressI2C(Handler, Address))
    /\ NoObjects

CallSetModeSingleShot ==
  \E Repeatability \in RepeatabilityArgs, sendRet \in SendRets :
    /\ Done("SetModeSingleShot", [Repeatability |-> Repeatability],
            SHT3x_SetModeSingleShot(Handler, Repeatability, sendRet))
    /\ NoObjects

CallSetModePeriodic ==
  \E Speed \in SpeedArgs, Repeatability \in RepeatabilityArgs,
     stray \in StrayBytes, sendRet \in SendRets :
    /\ Done("SetModePeriodic", [Speed |-> Speed, Repeatability |-> Repeatability],
            SHT3x_SetModePeriodic(Handler, Speed, Repeatability, stray, sendRet))
    /\ NoObjects

CallSetModeART ==
  \E sendRet \in SendRets :
    /\ Done("SetModeART", <<>>, SHT3x_SetModeART(Handler, sendRet))
    /\ NoObjects

CallClearStatus ==
  \E sendRet \in SendRets :
    /\ Done("ClearStatus", <<>>, SHT3x_ClearStatus(Handler, sendRet))
    /\ NoObjects

CallSetHeater ==
  \E Heater \in {0, 1, 255}, sendRet \in SendRets :
    /\ Done("SetHeater", [Heater |-> Heater], SHT3x_SetHeater(Handler, Heater, sendRet))
    /\ NoObjects

ReadSampleFrom(Ss, RXs) ==
  \E s \in Ss, sendRet \in SendRets, rx \in RXs,
     crcT, crcH \in {0, -1} :
    LET o == SHT3x_ReadSample(Handler, s, sendRet, rx, crcT, crcH) IN
    /\ Done("ReadSample", <<>>, o)
    /\ old' = [Handler |-> Handler, Sample |-> s, Status |-> NoArg]
    /\ Sample' = o.sample
    /\ Status' = NoArg

CallReadSample == ReadSampleFrom(StartSamples, RxCoarse)

CallReadStatus ==
  \E st \in StartStatuses, sendRet \in SendRets, rxRet \in ReceiveRets,
     Buffer \in StatusBuffers, crc \in {0, -1} :
    LET o == SHT3x_ReadStatus(Handler, st, sendRet, rxRet, Buffer, crc) IN
    /\ Done("ReadStatus", <<>>, o)
    /\ old' = [Handler |-> Handler, Sample |-> NoArg, Status |-> st]
    /\ Sample' = NoArg
    /\ Status' = o.status

\* The caller has looked at what the call returned; the next call may start.
Return ==
  /\ op # "none"
  /\ op' = "none"
  /\ args' = <<>>
  /\ result' = SHT3x_OK
  /\ calls' = <<>>
  /\ old' = [Handler |-> Handler, Sample |-> NoArg, Status |-> NoArg]
  /\ Sample' = NoArg
  /\ Status' = NoArg
  /\ UNCHANGED <<Handler, sensor, initOk>>

Next ==
  \/ CallInit
  \/ CallDeInit
  \/ CallSetAddressI2C
  \/ CallSetModeSingleShot
  \/ CallSetModePeriodic
  \/ CallSetModeART
  \/ CallReadSample
  \/ CallReadStatus
  \/ CallClearStatus
  \/ CallSetHeater
  \/ Return

Spec == Init /\ [][Next]_vars

(***************************************************************************)
(* Reading only.  The handle is one that SHT3x_Init and the mode setters   *)
(* have left behind: every binding bound, the CRC check the caller's or    *)
(* the default one, any mode, any stored repeatability (SetModeSingleShot  *)
(* stores it as passed).  The adapter may fail any number of the Receive   *)
(* calls of the polling loop.                                              *)
(***************************************************************************)
ReadHandlers ==
  {[AddressI2C |-> a, Mode |-> m, Repeatability |-> rp,
    Speed |-> SHT3x_SPEED_05MPS,
    PlatformInit |-> "Platform", PlatformDeInit |-> "Platform",
    PlatformSend |-> "Platform_Send", PlatformReceive |-> "Platform_Receive",
    PlatformDelay |-> "Platform_Delay", PlatformCRC |-> c] :
     a \in {SHT3X_I2C_ADDRESS_A, SHT3X_I2C_ADDRESS_B}, m \in Modes,
     rp \in RepeatabilityArgs, c \in {"Platform", "SHT3x_CheckCRC"}}

\* Every number of failed attempts; failed attempts that leave Buffer alone
\* or leave bytes in it; answers that are all zero.
RxFull ==
  Rx(0..PollAttempts, {ZeroBuffer, <<1, 2, 3, 4, 5, 6>>},
     SampleBuffers \cup {ZeroBuffer})

InitRead ==
  /\ Handler \in ReadHandlers
  /\ sensor = Handler.Mode
  /\ op = "none"
  /\ args = <<>>
  /\ result = SHT3x_OK
  /\ calls = <<>>
  /\ old = [Handler |-> Handler, Sample |-> NoArg, Status |-> NoArg]
  /\ Sample = NoArg
  /\ Status = NoArg
  /\ initOk = TRUE

PollReadSample == ReadSampleFrom(StartSamples, RxFull)

NextRead ==
  \/ PollReadSample
  \/ CallReadStatus
  \/ Return

SpecRead == InitRead /\ [][NextRead]_vars

(***************************************************************************)
(* SHT3x_ReadSample statement by statement.  While the function is in its  *)
(* polling loop, args holds its locals Counter and Buffer and what the     *)
(* adapter is going to do (rx); calls grows with every adapter call.  The  *)
(* paths without a loop are taken in one step.                             *)
(***************************************************************************)
\* The loop condition with one iteration too many.
LoopContinues_OneMore(Counter) == Counter <= PollAttempts

\* Line 359: Counter < 20.
LoopContinues(Counter) == Counter < PollAttempts

StepHandlers == {h \in ReadHandlers : h.AddressI2C = SHT3X_I2C_ADDRESS_A}

RxSteps == Rx(0..PollAttempts, {<<1, 2, 3, 4, 5, 6>>}, {<<102, 46, 255, 125, 19, 255>>, ZeroBuffer})

InitSteps ==
  /\ Handler \in StepHandlers
  /\ sensor = Handler.Mode
  /\ op = "none"
  /\ args = <<>>
  /\ result = SHT3x_OK
  /\ calls = <<>>
  /\ old = [Handler |-> Handler, Sample |-> NoArg, Status |-> NoArg]
  /\ Sample = NoArg
  /\ Status = NoArg
  /\ initOk = TRUE

\* Lines 335-358 and 370-397: the function up to its loop, or to its end when
\* it does not reach the loop (invalid repeatability, failed Send, periodic or
\* ART mode).
ReadSampleEnter ==
  \E s \in StartSamples, sendRet \in SendRets, rx \in RxSteps, crcT, crcH \in {0, -1} :
    LET o == SHT3x_ReadSample(Handler, s, sendRet, rx, crcT, crcH)
        loops == /\ Handler.Mode = SHT3x_MODE_SINGLESHOT
                 /\ Handler.Repeatability \in Repeatabilities
                 /\ sendRet = 0
    IN
    /\ op = "none"
    /\ old' = [Handler |-> Handler, Sample |-> s, Status |-> NoArg]
    /\ Status' = NoArg
    /\ UNCHANGED <<Handler, sensor, initOk>>
    /\ IF loops
         THEN /\ op' = "ReadSample:loop"
              /\ args' = [Counter |-> 0, Buffer |-> ZeroBuffer, rx |-> rx]
              /\ calls' = <<PlatformSend(Handler, SingleShotCmd(Handler.Repeatability), 0)>>
              /\ result' = result
              /\ Sample' = s
         ELSE /\ op' = "ReadSample"
              /\ args' = <<>>
              /\ calls' = o.calls
              /\ result' = o.res
              /\ Sample' = o.sample

\* Lines 359-365: one iteration of the loop.  A successful Receive leaves the
\* loop; a failed one is followed by the delay and the increment.
LoopAttempt ==
  /\ op = "ReadSample:loop"
  /\ LoopContinues(args.Counter)
  /\ IF args.Counter >= args.rx.nFail
       THEN /\ calls' = Append(calls, PlatformReceive(Handler, args.rx.okBuf, 6, 0))
            /\ args' = [args EXCEPT !.Buffer = args.rx.okBuf]
            /\ op' = "ReadSample:check"
       ELSE /\ calls' = calls \o <<PlatformReceive(Handler, args.rx.failBuf, 6,
                                                    args.rx.failRet),
                                    PlatformDelay(1)>>
            /\ args' = [args EXCEPT !.Buffer = args.rx.failBuf,
                                    !.Counter = args.Counter + 1]
            /\ op' = op
  /\ UNCHANGED <<Handler, sensor, result, old, Sample, Status, initOk>>

\* Line 359: the loop condition is false.
LoopExit ==
  /\ op = "ReadSample:loop"
  /\ ~ LoopContinues(args.Counter)
  /\ op' = "ReadSample:check"
  /\ UNCHANGED <<Handler, sensor, args, result, calls, old, Sample, Status, initOk>>

\* Lines 367-397: the test of the CRC bytes, the decoding and the CRC checks.
ReadSampleFinish ==
  \E crcT, crcH \in {0, -1} :
    LET o == IF CrcBytesZero(args.Buffer)
               THEN SampleOutcome(Handler, SHT3x_FAIL, calls, Sample)
               ELSE DecodeSample(Handler, calls, args.Buffer, Sample, crcT, crcH)
    IN
    /\ op = "ReadSample:check"
    /\ op' = "ReadSample"
    /\ args' = <<>>
    /\ calls' = o.calls
    /\ result' = o.res
    /\ Sample' = o.sample
    /\ UNCHANGED <<Handler, sensor, old, Status, initOk>>

\* The caller takes the result.
ReturnFromRead ==
  /\ op = "ReadSample"
  /\ Return

NextSteps ==
  \/ ReadSampleEnter
  \/ LoopAttempt
  \/ LoopExit
  \/ ReadSampleFinish
  \/ ReturnFromRead

SpecSteps == InitSteps /\ [][NextSteps]_vars

(***************************************************************************)
(* Two callers, A and B, each running one mode-set function on the same    *)
(* handle with nothing to keep them apart.  A function is three steps: the *)
(* Send, the store of Mode, the stores of the other fields.  args holds,   *)
(* for each caller, the function, its arguments and where it stands, and   *)
(* the order in which the callers sent and stored; calls is the bus, in    *)
(* the order of the Sends.                                                 *)
(***************************************************************************)
Callers == {"A", "B"}

\* The calls a caller may make.
RaceCalls ==
  {[f |-> "SetModeSingleShot", Speed |-> SHT3x_SPEED_05MPS, Repeatability |-> rp] :
     rp \in {SHT3x_REPEATABILITY_LOW, SHT3x_REPEATABILITY_HIGH}}
  \cup {[f |-> "SetModePeriodic", Speed |-> SHT3x_SPEED_1MPS,
         Repeatability |-> SHT3x_REPEATABILITY_MEDIUM],
        [f |-> "SetModeART", Speed |-> SHT3x_SPEED_05MPS,
         Repeatability |-> SHT3x_REPEATABILITY_LOW]}

\* What the function of call c does on handle h when its Send returns sendRet.
ModeSet(c, h, sendRet) ==
  CASE c.f = "SetModeSingleShot" -> SHT3x_SetModeSingleShot(h, c.Repeatability, sendRet)
    [] c.f = "SetModePeriodic" ->
         SHT3x_SetModePeriodic(h, c.Speed, c.Repeatability, 0, sendRet)
    [] c.f = "SetModeART" -> SHT3x_SetModeART(h, sendRet)

InitRace ==
  /\ Handler \in {h \in StepHandlers : /\ h.Repeatability = SHT3x_REPEATABILITY_LOW
                                       /\ h.PlatformCRC = "SHT3x_CheckCRC"}
  /\ sensor = Handler.Mode
  /\ op = "race"
  /\ args \in [call : [Callers -> RaceCalls], pc : {[c \in Callers |-> "send"]},
               sent : {<<>>}, stored : {<<>>}]
  /\ result = SHT3x_OK
  /\ calls = <<>>
  /\ old = [Handler |-> Handler, Sample |-> NoArg, Status |-> NoArg]
  /\ Sample = NoArg
  /\ Status = NoArg
  /\ initOk = TRUE

\* The Send of caller c's function, and its return with Fail if the Send
\* failed.
RaceSend(c) ==
  \E sendRet \in SendRets :
    LET o == ModeSet(args.call[c], Handler, sendRet) IN
    /\ args.pc[c] = "send"
    /\ calls' = calls \o o.calls
    /\ sensor' = SensorAfter(sensor, o.calls)
    /\ args' = [args EXCEPT !.pc[c] = IF sendRet = 0 THEN "store" ELSE "done",
                            !.sent = Append(args.sent, c)]
    /\ UNCHANGED <<Handler, op, result, old, Sample, Status, initOk>>

\* Handler->Mode = ... of caller c's function.
RaceStoreMode(c) ==
  /\ args.pc[c] = "store"
  /\ Handler' = [Handler EXCEPT !.Mode = ModeSet(args.call[c], Handler, 0).h.Mode]
  /\ args' = [args EXCEPT !.pc[c] = "store2", !.stored = Append(args.stored, c)]
  /\ UNCHANGED <<sensor, op, result, calls, old, Sample, Status, initOk>>

\* The stores after it (Repeatability, Speed), and the return with Ok.
RaceStoreRest(c) ==
  /\ args.pc[c] = "store2"
  /\ Handler' = ModeSet(args.call[c], Handler, 0).h
  /\ Handler'.Mode = Handler.Mode
  /\ args' = [args EXCEPT !.pc[c] = "done"]
  /\ UNCHANGED <<sensor, op, result, calls, old, Sample, Status, initOk>>

NextRace == \E c \in Callers : RaceSend(c) \/ RaceStoreMode(c) \/ RaceStoreRest(c)

SpecRace == InitRace /\ [][NextRace]_vars

(***************************************************************************)
(* Properties.                                                             *)
(***************************************************************************)
ModeSetOps == {"SetModeSingleShot", "SetModePeriodic", "SetModeART"}

BusOps ==
  {"Init", "SetModeSingleShot", "SetModePeriodic", "SetModeART", "ReadSample",
   "ReadStatus", "ClearStatus", "SetHeater"}

\* Some Send of the call that has just returned came back nonzero.
SendFailed == \E i \in DOMAIN calls : calls[i].fn = "Send" /\ calls[i].ret # 0

\* Mode, repeatability and speed of the handle are what they were on entry.
ModeFieldsKept ==
  /\ Handler.Mode = old.Handler.Mode
  /\ Handler.Repeatability = old.Handler.Repeatability
  /\ Handler.Speed = old.Handler.Speed

\* The command the next SHT3x_ReadSample on handle h sends (<<>> if none).
ReadCommand(h) ==
  LET o == SHT3x_ReadSample(h, CHOOSE s \in StartSamples : TRUE, 0,
                            CHOOSE rx \in RxCoarse : TRUE, 0, 0)
  IN IF o.calls = <<>> THEN <<>> ELSE o.calls[1].data

\* The adapter calls without what they returned or delivered.
Shape(c) == [fn |-> c.fn, addr |-> c.addr, len |-> c.len, ms |-> c.ms]

\* C1: when the Send of SetModeSingleShot, SetModePeriodic or SetModeART
\* returns nonzero, the call returns Fail, the handle's mode, repeatability
\* and speed are what they were, and the next ReadSample sends the command of
\* the mode stored before.
C1_FailedSendKeepsMode ==
  (op \in ModeSetOps /\ SendFailed) =>
    /\ result = SHT3x_FAIL
    /\ ModeFieldsKept
    /\ ReadCommand(Handler) = ReadCommand(old.Handler)

\* C1 witness: a SetModePeriodic whose Send failed, on a handle in single-shot
\* mode asked for another repeatability and speed.
C1_Witness ==
  /\ op = "SetModePeriodic"
  /\ SendFailed
  /\ old.Handler.Mode = SHT3x_MODE_SINGLESHOT
  /\ args.Repeatability \in Repeatabilities \ {old.Handler.Repeatability}
  /\ args.Speed \in Speeds \ {old.Handler.Speed}

\* C2: once an Init has returned Ok, the handle's mode is the device's mode
\* whenever no call is in progress.
C2_HandleModeIsSensorMode == initOk => Handler.Mode = sensor

\* C3: when Init returns Ok the handle is in single-shot mode with low
\* repeatability.
C3_InitOkForcesBaseline ==
  (op = "Init" /\ result = SHT3x_OK) =>
    /\ Handler.Mode = SHT3x_MODE_SINGLESHOT
    /\ Handler.Repeatability = SHT3x_REPEATABILITY_LOW

\* C4: a call that talks to the bus and had a Send return nonzero returns Fail.
C4_FailedSendGivesFail == (op \in BusOps /\ SendFailed) => result = SHT3x_FAIL

\* C5: Init on a handle whose Send, Receive or Delay binding is null returns
\* InvalidParam and calls nothing of the adapter, the platform init included.
C5_InitNullBinding ==
  (/\ op = "Init"
   /\ \/ old.Handler.PlatformSend = NULL
      \/ old.Handler.PlatformReceive = NULL
      \/ old.Handler.PlatformDelay = NULL) =>
    /\ result = SHT3x_INVALID_PARAM
    /\ calls = <<>>

\* C5 witness: such an Init, with the platform init bound.
C5_Witness ==
  /\ op = "Init"
  /\ old.Handler.PlatformDelay = NULL
  /\ old.Handler.PlatformInit # NULL
  /\ result = SHT3x_INVALID_PARAM

\* The address SetAddressI2C resolves the Init argument to; an argument that
\* is none of the six encodings leaves the address the handle had.
ResolvedAddress ==
  IF args.Address \in {0, 68, 136} THEN 68
  ELSE IF args.Address \in {1, 69, 138} THEN 69
  ELSE old.Handler.AddressI2C

\* The adapter calls of an Init that returns Ok.
InitOkShape ==
  (IF old.Handler.PlatformInit # NULL THEN <<Shape(PlatformInit(0))>> ELSE <<>>)
    \o <<[fn |-> "Send", addr |-> ResolvedAddress, len |-> 2, ms |-> 0],
         [fn |-> "Send", addr |-> ResolvedAddress, len |-> 2, ms |-> 0],
         [fn |-> "Delay", addr |-> 0, len |-> 0, ms |-> 2]>>

C7_PlatformInitFailure ==
  (/\ op = "Init"
   /\ \E i \in DOMAIN calls : calls[i].fn = "Init" /\ calls[i].ret # 0) =>
    /\ result = SHT3x_FAIL
    /\ \A i \in DOMAIN calls : calls[i].fn \notin {"Send", "Receive", "Delay"}
    /\ ModeFieldsKept

\* C7 witness: an Init whose platform init returned nonzero.
C7_Witness ==
  /\ op = "Init"
  /\ calls # <<>>
  /\ calls[1].fn = "Init"
  /\ calls[1].ret # 0
  /\ old.Handler.Mode # SHT3x_MODE_SINGLESHOT

\* C8: SetModeSingleShot with a repeatability outside {Low, Medium, High}
\* returns InvalidParam and does not store the value.
C8_SingleShotRejectsRepeatability ==
  (op = "SetModeSingleShot" /\ args.Repeatability \notin Repeatabilities) =>
    /\ result = SHT3x_INVALID_PARAM
    /\ Handler.Repeatability = old.Handler.Repeatability

\* C9: SetModePeriodic with a speed outside the five speeds or a repeatability
\* outside {Low, Medium, High} returns InvalidParam, calls Send zero times and
\* leaves mode, repeatability and speed as they were.
C9_PeriodicRejectsArguments ==
  (/\ op = "SetModePeriodic"
   /\ \/ args.Speed \notin Speeds
      \/ args.Repeatability \notin Repeatabilities) =>
    /\ result = SHT3x_INVALID_PARAM
    /\ calls = <<>>
    /\ ModeFieldsKept

\* The fifteen periodic codes as the claim lists them, as 16-bit numbers:
\* row = speed (0.5, 1, 2, 4, 10 mps), column = repeatability (L, M, H).
PeriodicTable ==
  <<<<8239, 8228, 8242>>,
    <<8493, 8486, 8496>>,
    <<8747, 8736, 8758>>,
    <<9001, 8994, 9012>>,
    <<10026, 10017, 10039>>>>

\* A 16-bit command on the wire, most significant byte first.
Wire(w) == <<w \div 256, w % 256>>

\* C10: for each of the 15 (speed, repeatability) pairs SetModePeriodic makes
\* exactly one Send, of the two bytes of the table entry, MSB first; the 15
\* codes are pairwise distinct; and when the Send returns 0 the handle holds
\* mode Periodic with the speed and repeatability passed.
C10_PeriodicCommandTable ==
  (/\ op = "SetModePeriodic"
   /\ args.Speed \in Speeds
   /\ args.Repeatability \in Repeatabilities) =>
    /\ Len(calls) = 1
    /\ calls[1].fn = "Send"
    /\ calls[1].len = 2
    /\ calls[1].addr = old.Handler.AddressI2C
    /\ calls[1].data = Wire(PeriodicTable[args.Speed + 1][args.Repeatability + 1])
    /\ Cardinality(PeriodicCodes) = 15
    /\ calls[1].ret = 0 =>
         /\ result = SHT3x_OK
         /\ Handler.Mode = SHT3x_MODE_PERIODIC
         /\ Handler.Speed = args.Speed
         /\ Handler.Repeatability = args.Repeatability

\* C10 witness: SetModePeriodic(4 mps, High) acknowledged, sent as 0x23 0x34.
C10_Witness ==
  /\ op = "SetModePeriodic"
  /\ args.Speed = SHT3x_SPEED_4MPS
  /\ args.Repeatability = SHT3x_REPEATABILITY_HIGH
  /\ result = SHT3x_OK
  /\ calls[1].data = <<35, 52>>
  /\ old.Handler.Mode # SHT3x_MODE_PERIODIC

\* The call that has just returned made exactly one adapter call, a Send of
\* the two bytes of the 16-bit command w to the address the handle held.
OneSendOf(w) ==
  /\ Len(calls) = 1
  /\ calls[1].fn = "Send"
  /\ calls[1].len = 2
  /\ calls[1].addr = old.Handler.AddressI2C
  /\ calls[1].data = Wire(w)

\* C11: SetModeSingleShot sends the stop-periodic command 0x3093 exactly once
\* whatever mode the handle is in, and when that Send returns 0 the handle
\* holds mode SingleShot and the repeatability passed in.
C11_SingleShotSendsStop ==
  op = "SetModeSingleShot" =>
    /\ OneSendOf(12435)
    /\ calls[1].ret = 0 =>
         /\ Handler.Mode = SHT3x_MODE_SINGLESHOT
         /\ Handler.Repeatability = args.Repeatability

\* C11 happens: a handle in periodic mode is put into single-shot mode with
\* medium repeatability.
C11_Witness ==
  /\ op = "SetModeSingleShot"
  /\ old.Handler.Mode = SHT3x_MODE_PERIODIC
  /\ old.Handler.Repeatability = SHT3x_REPEATABILITY_HIGH
  /\ args.Repeatability = SHT3x_REPEATABILITY_MEDIUM
  /\ calls[1].ret = 0
  /\ Handler.Mode = SHT3x_MODE_SINGLESHOT

\* C12: SetModeART sends the command 0x2B32 exactly once in every handle
\* state, never returns InvalidParam, and when the Send returns 0 the handle's
\* mode is ART.
C12_ARTSendsCommand ==
  op = "SetModeART" =>
    /\ OneSendOf(11058)
    /\ result # SHT3x_INVALID_PARAM
    /\ calls[1].ret = 0 => Handler.Mode = SHT3x_MODE_ART

\* C12 happens: a handle in single-shot mode is put into ART mode.
C12_Witness ==
  /\ op = "SetModeART"
  /\ old.Handler.Mode = SHT3x_MODE_SINGLESHOT
  /\ calls[1].ret = 0
  /\ Handler.Mode = SHT3x_MODE_ART

\* The Send calls of the call that has just returned.
Sends == {i \in DOMAIN calls : calls[i].fn = "Send"}

\* The single-shot codes without clock stretching, by repeatability
\* (Low, Medium, High).
SingleShotTable == <<9238, 9227, 9216>>

\* C13: ReadSample sends at most one command, and exactly one unless it
\* refuses the stored repeatability; in SingleShot mode the command is the
\* single-shot code without clock stretching for the stored repeatability
\* (Low 0x2416, Medium 0x240B, High 0x2400), in Periodic or ART mode it is
\* fetch-data 0xE000.
C13_ReadCommandFollowsMode ==
  (op = "ReadSample" /\ old.Handler.Mode \in Modes) =>
    /\ Cardinality(Sends) <= 1
    /\ \A i \in Sends :
         /\ i = 1
         /\ calls[i].len = 2
         /\ calls[i].addr = old.Handler.AddressI2C
         /\ calls[i].data # <<>>
         /\ calls[i].data[1] # 44
         /\ IF old.Handler.Mode = SHT3x_MODE_SINGLESHOT
              THEN calls[i].data = Wire(SingleShotTable[old.Handler.Repeatability + 1])
              ELSE calls[i].data = Wire(57344)
    /\ (\/ old.Handler.Mode # SHT3x_MODE_SINGLESHOT
        \/ old.Handler.Repeatability \in Repeatabilities) => Sends = {1}

\* C13 happens: a read in single-shot mode with medium repeatability sent
\* 0x240B and went on to receive.
C13_Witness ==
  /\ op = "ReadSample"
  /\ old.Handler.Mode = SHT3x_MODE_SINGLESHOT
  /\ old.Handler.Repeatability = SHT3x_REPEATABILITY_MEDIUM
  /\ Len(calls) > 1
  /\ calls[1].data = <<36, 11>>
  /\ result = SHT3x_OK

\* The Receive and the Delay calls of the call that has just returned.
Receives == {i \in DOMAIN calls : calls[i].fn = "Receive"}
Delays == {i \in DOMAIN calls : calls[i].fn = "Delay"}

\* A single-shot read whose command went out.
SingleShotRead ==
  /\ op = "ReadSample"
  /\ old.Handler.Mode = SHT3x_MODE_SINGLESHOT
  /\ Sends # {}
  /\ \A i \in Sends : calls[i].ret = 0

\* Between two consecutive Receive calls there is exactly one Delay, of 1 ms.
DelayBetweenAttempts ==
  \A i, j \in Receives :
    (i < j /\ ~ \E m \in Receives : i < m /\ m < j) =>
      /\ j = i + 2
      /\ calls[i + 1].fn = "Delay"
      /\ calls[i + 1].ms = 1

\* C14: in SingleShot mode, when the command Send succeeds and every Receive
\* returns nonzero, ReadSample calls Receive exactly 20 times with a Delay(1)
\* between consecutive attempts and then returns Fail, whatever the failing
\* Receive calls left in the buffer.
C14_AllReceivesFail ==
  (SingleShotRead /\ \A i \in Receives : calls[i].ret # 0) =>
    /\ Cardinality(Receives) = 20
    /\ DelayBetweenAttempts
    /\ result = SHT3x_FAIL

\* C15: in SingleShot mode, if the k-th Receive (1 <= k <= 20) is the first to
\* return 0, ReadSample makes exactly k Receive calls and k-1 Delay(1) calls,
\* and no Receive or Delay after it.
C15_PollStopsAtFirstSuccess ==
  (SingleShotRead /\ \E i \in Receives : calls[i].ret = 0) =>
    LET first == CHOOSE i \in Receives :
                   /\ calls[i].ret = 0
                   /\ \A j \in Receives : calls[j].ret = 0 => i <= j
        k == Cardinality({i \in Receives : i <= first})
    IN
    /\ k \in 1..20
    /\ Cardinality(Receives) = k
    /\ Cardinality(Delays) = k - 1
    /\ \A i \in Delays : calls[i].ms = 1
    /\ \A i \in Receives \cup Delays : i <= first
    /\ DelayBetweenAttempts

\* C15 happens: the seventh Receive is the first to succeed, after a bus NACK
\* on the six before it, and the sample is converted.
C15_Witness ==
  /\ SingleShotRead
  /\ Cardinality(Receives) = 7
  /\ Cardinality(Delays) = 6
  /\ \E i \in Receives : calls[i].ret = 0
  /\ \E i \in Receives : calls[i].ret = -3
  /\ result = SHT3x_OK

\* A read in periodic or ART mode.
FetchRead ==
  /\ op = "ReadSample"
  /\ old.Handler.Mode \in {SHT3x_MODE_PERIODIC, SHT3x_MODE_ART}

\* C16: in Periodic or ART mode ReadSample makes exactly one Send (0xE000), at
\* most one Receive, of 6 bytes, and no Delay; when that Receive returns the
\* bus-NACK code -3 the result is NoData, when it returns another nonzero
\* value the result is Fail.
C16_FetchOnce ==
  FetchRead =>
    /\ Sends = {1}
    /\ calls[1].data = Wire(57344)
    /\ calls[1].len = 2
    /\ Cardinality(Receives) <= 1
    /\ Delays = {}
    /\ \A i \in Receives :
         /\ calls[i].len = 6
         /\ calls[i].addr = old.Handler.AddressI2C
         /\ calls[i].ret = -3 => result = SHT3x_NO_DATA
         /\ calls[i].ret \notin {0, -3} => result = SHT3x_FAIL

\* C16 happens: a read in periodic mode meets a bus NACK and returns NoData
\* after one Receive.
C16_Witness ==
  /\ FetchRead
  /\ old.Handler.Mode = SHT3x_MODE_PERIODIC
  /\ Len(calls) = 2
  /\ calls[2].fn = "Receive"
  /\ calls[2].ret = -3
  /\ result = SHT3x_NO_DATA

\* C17: ReadSample returns NoData only when the handle's mode is Periodic or
\* ART; in SingleShot mode a Receive that returns -3 is followed by the delay
\* and, unless it was the 20th attempt, by another Receive, and the result is
\* not NoData.
C17_NoDataOnlyWhenFetching ==
  op = "ReadSample" =>
    /\ result = SHT3x_NO_DATA =>
         old.Handler.Mode \in {SHT3x_MODE_PERIODIC, SHT3x_MODE_ART}
    /\ old.Handler.Mode = SHT3x_MODE_SINGLESHOT =>
         \A i \in Receives :
           calls[i].ret = -3 =>
             /\ i + 1 \in Delays
             /\ calls[i + 1].ms = 1
             /\ Cardinality({j \in Receives : j <= i}) < 20 => i + 2 \in Receives
             /\ result # SHT3x_NO_DATA

\* C17 happens: all 20 attempts of a single-shot read meet a bus NACK and the
\* read returns Fail.
C17_Witness ==
  /\ SingleShotRead
  /\ Cardinality(Receives) = 20
  /\ \A i \in Receives : calls[i].ret = -3
  /\ result = SHT3x_FAIL

\* The CRC checks of the call that has just returned.
Crcs == {i \in DOMAIN calls : calls[i].fn = "CRC"}

\* What the last Receive of the call left in the buffer.
Received == calls[CHOOSE i \in Receives : \A j \in Receives : j <= i].data

\* C18: in SingleShot mode, when a Receive succeeds and bytes 2 and 5 of the
\* buffer are both zero, ReadSample returns Fail, makes no CRC check and leaves
\* the sample as it was, whatever the four data bytes are.
C18_ZeroCrcBytesFail ==
  (/\ SingleShotRead
   /\ \E i \in Receives :
        calls[i].ret = 0 /\ calls[i].data[3] = 0 /\ calls[i].data[6] = 0) =>
    /\ result = SHT3x_FAIL
    /\ Crcs = {}
    /\ Sample = old.Sample

\* C18 happens: the sensor answers FF FF 00 01 02 00 at the third attempt and
\* the read fails with the earlier values still in the sample.
C18_Witness ==
  /\ SingleShotRead
  /\ Cardinality(Receives) = 3
  /\ Received = <<255, 255, 0, 1, 2, 0>>
  /\ calls[Len(calls)].ret = 0
  /\ result = SHT3x_FAIL
  /\ Sample.TempRaw = 1

\* A read with the caller's CRC check bound, in which a buffer was received,
\* no Send or Receive failed and every CRC check made reported a mismatch.
MismatchRead ==
  /\ op \in {"ReadSample", "ReadStatus"}
  /\ old.Handler.PlatformCRC = "Platform"
  /\ Receives # {}
  /\ \A i \in Sends \cup Receives : calls[i].ret = 0
  /\ \A i \in Crcs : calls[i].ret # 0

\* The raw outputs hold what the received bytes decode to.
RawDecoded ==
  IF op = "ReadSample"
    THEN /\ Sample.TempRaw = Received[1] * 256 + Received[2]
         /\ Sample.HumRaw = Received[4] * 256 + Received[5]
    ELSE Status = Received[1] * 256 + Received[2]

\* C19 as stated: with a CRC check that always reports mismatch and every
\* Send and Receive succeeding, ReadSample (in every mode, for every received
\* buffer) and ReadStatus return CrcError with the raw outputs decoded.
C19_MismatchGivesCrcError ==
  MismatchRead => (result = SHT3x_CRC_ERROR /\ RawDecoded)

\* C19 amended: the same, except that ReadSample in SingleShot mode returns
\* Fail and leaves the sample untouched when bytes 2 and 5 of the received
\* buffer are both zero.
C19_MismatchGivesCrcErrorUnlessZero ==
  MismatchRead =>
    IF /\ op = "ReadSample"
       /\ old.Handler.Mode = SHT3x_MODE_SINGLESHOT
       /\ Received[3] = 0
       /\ Received[6] = 0
      THEN result = SHT3x_FAIL /\ Sample = old.Sample
      ELSE result = SHT3x_CRC_ERROR /\ RawDecoded

\* C19 happens: a read in ART mode receives a buffer whose CRC bytes are both
\* zero, the CRC check reports a mismatch and the raw fields are decoded.
C19_Witness ==
  /\ MismatchRead
  /\ op = "ReadSample"
  /\ old.Handler.Mode = SHT3x_MODE_ART
  /\ Received = <<255, 255, 0, 1, 2, 0>>
  /\ result = SHT3x_CRC_ERROR
  /\ Sample.TempRaw = 65535
  /\ Sample.HumRaw = 258

\* C20: ReadSample checks the temperature word before the humidity word; if
\* the temperature check reports a mismatch the humidity check is not made and
\* the result is CrcError; whenever the result is CrcError the derived fields
\* keep their previous values and TempRaw and HumRaw are both written.
C20_TemperatureCheckedFirst ==
  op = "ReadSample" =>
    /\ \A i \in Crcs :
         /\ i - 1 \notin Crcs =>
              /\ calls[i].data = <<Received[1] * 256 + Received[2], Received[3]>>
              /\ calls[i].ret # 0 => (i + 1 \notin Crcs /\ result = SHT3x_CRC_ERROR)
         /\ i - 1 \in Crcs =>
              /\ i - 2 \notin Crcs
              /\ calls[i].data = <<Received[4] * 256 + Received[5], Received[6]>>
         /\ \A j \in DOMAIN calls : j > i => j \in Crcs
    /\ result = SHT3x_CRC_ERROR =>
         /\ Crcs # {}
         /\ Sample.TempCelsius = old.Sample.TempCelsius
         /\ Sample.TempFahrenheit = old.Sample.TempFahrenheit
         /\ Sample.HumidityPercent = old.Sample.HumidityPercent
         /\ Sample.TempRaw = Received[1] * 256 + Received[2]
         /\ Sample.HumRaw = Received[4] * 256 + Received[5]

\* C20 happens: the temperature word passes, the humidity word does not; the
\* sample holds the new raw words and the derived values of the read before.
C20_Witness ==
  /\ op = "ReadSample"
  /\ result = SHT3x_CRC_ERROR
  /\ Cardinality(Crcs) = 2
  /\ Received = <<102, 46, 255, 125, 19, 255>>
  /\ Sample.TempRaw = 26158
  /\ Sample.HumRaw = 32019
  /\ old.Sample.TempCelsius = 3
  /\ Sample.TempCelsius = 3

\* C21: for every buffer B0..B5 that ReadSample accepts, TempRaw = 256*B0 + B1
\* and HumRaw = 256*B3 + B4, and the CRC check is called with (TempRaw, B2)
\* and then (HumRaw, B5); after Init(0) and SetModePeriodic(1 mps, High) the
\* bytes 66 2E FF 7D 13 FF with the default CRC check give Ok with
\* TempRaw = 26158 and HumRaw = 32019.
C21_BufferLayout ==
  op = "ReadSample" =>
    /\ result = SHT3x_OK =>
         /\ Sample.TempRaw = 256 * Received[1] + Received[2]
         /\ Sample.HumRaw = 256 * Received[4] + Received[5]
         /\ Cardinality(Crcs) = 2
         /\ calls[Len(calls) - 1].fn = "CRC"
         /\ calls[Len(calls) - 1].data = <<Sample.TempRaw, Received[3]>>
         /\ calls[Len(calls)].fn = "CRC"
         /\ calls[Len(calls)].data = <<Sample.HumRaw, Received[6]>>
    /\ (/\ old.Handler.Mode = SHT3x_MODE_PERIODIC
        /\ old.Handler.PlatformCRC = "SHT3x_CheckCRC"
        /\ Receives # {}
        /\ \A i \in Sends \cup Receives : calls[i].ret = 0
        /\ Received = <<102, 46, 255, 125, 19, 255>>) =>
         /\ result = SHT3x_OK
         /\ Sample.TempRaw = 26158
         /\ Sample.HumRaw = 32019

\* C21 happens: the handle went through Init with selector 0 and default CRC
\* check and SetModePeriodic(1 mps, High); the read of 66 2E FF 7D 13 FF is
\* accepted.
C21_Witness ==
  /\ op = "ReadSample"
  /\ initOk
  /\ old.Handler.AddressI2C = SHT3X_I2C_ADDRESS_A
  /\ old.Handler.Mode = SHT3x_MODE_PERIODIC
  /\ old.Handler.Speed = SHT3x_SPEED_1MPS
  /\ old.Handler.Repeatability = SHT3x_REPEATABILITY_HIGH
  /\ old.Handler.PlatformCRC = "SHT3x_CheckCRC"
  /\ result = SHT3x_OK
  /\ Received = <<102, 46, 255, 125, 19, 255>>
  /\ Sample.TempRaw = 26158
  /\ Sample.HumRaw = 32019

\* A derived field of the sample holds the number v (the fields are kept as
\* numerators over 65535).
Is(field, v) == field = v * 65535

\* C22: the conversion of a successful ReadSample follows
\* Celsius = raw*175/65535 - 45, Fahrenheit = raw*315/65535 - 49 and
\* Humidity = raw*100/65535; it maps raw 0 to -45 C, -49 F and 0 percent, and
\* raw 65535 to 130 C, 266 F and 100 percent.
C22_ConversionEndpoints ==
  (op = "ReadSample" /\ result = SHT3x_OK) =>
    /\ Sample.TempCelsius = Sample.TempRaw * 175 - 45 * 65535
    /\ Sample.TempFahrenheit = Sample.TempRaw * 315 - 49 * 65535
    /\ Sample.HumidityPercent = Sample.HumRaw * 100
    /\ Sample.TempRaw = 0 =>
         Is(Sample.TempCelsius, -45) /\ Is(Sample.TempFahrenheit, -49)
    /\ Sample.TempRaw = 65535 =>
         Is(Sample.TempCelsius, 130) /\ Is(Sample.TempFahrenheit, 266)
    /\ Sample.HumRaw = 0 => Is(Sample.HumidityPercent, 0)
    /\ Sample.HumRaw = 65535 => Is(Sample.HumidityPercent, 100)

\* C22 happens: a read in periodic mode accepts FF FF 00 01 02 00 and the
\* sample holds 130 C and 266 F.
C22_Witness ==
  /\ op = "ReadSample"
  /\ result = SHT3x_OK
  /\ old.Sample.TempCelsius = 3
  /\ Sample.TempRaw = 65535
  /\ Is(Sample.TempCelsius, 130)
  /\ Is(Sample.TempFahrenheit, 266)

\* C23: SetAddressI2C resolves the selectors 0, 0x44 and 0x88 to 0x44 and the
\* selectors 1, 0x45 and 0x8A to 0x45 and returns Ok; called with the handle's
\* own resolved address, or with that address shifted left by one, it leaves
\* the address unchanged.
C23_AddressEncodings ==
  op = "SetAddressI2C" =>
    /\ result = SHT3x_OK
    /\ calls = <<>>
    /\ args.Address \in {0, 68, 136} => Handler.AddressI2C = 68
    /\ args.Address \in {1, 69, 138} => Handler.AddressI2C = 69
    /\ (/\ old.Handler.AddressI2C \in {68, 69}
        /\ args.Address \in {old.Handler.AddressI2C, 2 * old.Handler.AddressI2C}) =>
         Handler.AddressI2C = old.Handler.AddressI2C

\* C23 happens: a handle at 0x45 is given 0x8A and stays at 0x45.
C23_Witness ==
  /\ op = "SetAddressI2C"
  /\ old.Handler.AddressI2C = 69
  /\ args.Address = 138
  /\ Handler.AddressI2C = 69
  /\ result = SHT3x_OK

\* C24: after Init or SetAddressI2C returns, whatever the selector and
\* whatever the address field held, the handle's address is 0x44 or 0x45, and
\* every later Send and Receive goes to 0x44 or 0x45.
C24_AddressAlwaysResolved ==
  /\ op \in {"Init", "SetAddressI2C"} => Handler.AddressI2C \in {68, 69}
  /\ initOk =>
       \A i \in Sends \cup Receives : calls[i].addr \in {68, 69}

\* C25: SetAddressI2C called with a selector that is none of 0, 1, 0x44,
\* 0x45, 0x88, 0x8A sets the handle's address to 0x44.
C25_UnknownSelectorGivesA ==
  (op = "SetAddressI2C" /\ args.Address \notin {0, 1, 68, 69, 136, 138}) =>
    Handler.AddressI2C = 68

\* C26: ReadStatus sends 0xF32D and then makes one Receive of 3 bytes; if the
\* Send or the Receive returns nonzero it returns Fail with *Status unchanged,
\* and makes no Receive after a failed Send; otherwise it stores 256*B0 + B1
\* in *Status and returns CrcError if the CRC check of (that value, B2) is
\* nonzero, else Ok.
C26_ReadStatusSequence ==
  op = "ReadStatus" =>
    /\ Sends = {1}
    /\ calls[1].data = Wire(62253)
    /\ calls[1].len = 2
    /\ calls[1].addr = old.Handler.AddressI2C
    /\ Delays = {}
    /\ IF calls[1].ret # 0
         THEN Len(calls) = 1 /\ result = SHT3x_FAIL /\ Status = old.Status
         ELSE /\ Receives = {2}
              /\ calls[2].len = 3
              /\ calls[2].addr = old.Handler.AddressI2C
              /\ IF calls[2].ret # 0
                   THEN Len(calls) = 2 /\ result = SHT3x_FAIL /\ Status = old.Status
                   ELSE /\ Status = 256 * calls[2].data[1] + calls[2].data[2]
                        /\ Crcs = {3}
                        /\ Len(calls) = 3
                        /\ calls[3].data = <<Status, calls[2].data[3]>>
                        /\ result = IF calls[3].ret # 0 THEN SHT3x_CRC_ERROR
                                                        ELSE SHT3x_OK

\* C26 happens: the status bytes 80 10 E1 pass the check and *Status, which
\* held 0x1234, holds 0x8010.
C26_Witness ==
  /\ op = "ReadStatus"
  /\ old.Status = 4660
  /\ Len(calls) = 3
  /\ calls[2].data = <<128, 16, 225>>
  /\ result = SHT3x_OK
  /\ Status = 32784

\* C27: SetHeater sends exactly one command, 0x306D when its argument is
\* nonzero and 0x3066 when it is zero; ClearStatus sends exactly 0x3041;
\* neither calls Receive or Delay, and each returns Ok exactly when its Send
\* returned 0.
C27_HeaterAndClearStatus ==
  /\ op = "SetHeater" =>
       /\ OneSendOf(IF args.Heater # 0 THEN 12397 ELSE 12390)
       /\ result = SHT3x_OK <=> calls[1].ret = 0
       /\ result \in {SHT3x_OK, SHT3x_FAIL}
  /\ op = "ClearStatus" =>
       /\ OneSendOf(12353)
       /\ result = SHT3x_OK <=> calls[1].ret = 0
       /\ result \in {SHT3x_OK, SHT3x_FAIL}

\* C27 happens: SetHeater(255) has sent the enable command.
C27_Witness ==
  /\ op = "SetHeater"
  /\ args.Heater = 255
  /\ calls[1].data = <<48, 109>>
  /\ result = SHT3x_OK

\* C28: DeInit calls the platform deinit exactly once when it is bound and
\* returns Fail exactly when that call returns nonzero; when it is not bound
\* DeInit returns Ok; it never calls Send, Receive or Delay and leaves the
\* handle unchanged.
C28_DeInit ==
  op = "DeInit" =>
    /\ Handler = old.Handler
    /\ IF old.Handler.PlatformDeInit # NULL
         THEN /\ Len(calls) = 1
              /\ calls[1].fn = "DeInit"
              /\ result = SHT3x_FAIL <=> calls[1].ret # 0
              /\ result \in {SHT3x_OK, SHT3x_FAIL}
         ELSE calls = <<>> /\ result = SHT3x_OK

\* C28 happens: the platform deinit is bound and returns nonzero.
C28_Witness ==
  /\ op = "DeInit"
  /\ Len(calls) = 1
  /\ calls[1].ret # 0
  /\ result = SHT3x_FAIL

\* The three required bindings of the handle the call was made on are bound.
RequiredBound ==
  /\ old.Handler.PlatformSend # NULL
  /\ old.Handler.PlatformReceive # NULL
  /\ old.Handler.PlatformDelay # NULL

\* C29: when Init is called with the required bindings present and no CRC
\* check bound, it binds the always-valid check, and a bound CRC check it
\* leaves in place; no other operation changes the binding; and with the
\* always-valid check bound no ReadSample or ReadStatus returns CrcError.
C29_DefaultCrcCheck ==
  /\ (op = "Init" /\ RequiredBound) =>
       Handler.PlatformCRC = IF old.Handler.PlatformCRC = NULL
                               THEN "SHT3x_CheckCRC"
                               ELSE old.Handler.PlatformCRC
  /\ (op # "Init" \/ ~ RequiredBound) =>
       Handler.PlatformCRC = old.Handler.PlatformCRC
  /\ (/\ op \in {"ReadSample", "ReadStatus"}
      /\ old.Handler.PlatformCRC = "SHT3x_CheckCRC") =>
       /\ result # SHT3x_CRC_ERROR
       /\ \A i \in Crcs : calls[i].ret = 0

\* C29 happens: on a handle initialised without a CRC check, a read in
\* periodic mode accepts 00 00 00 FF FF AC, whose first CRC byte is not the
\* checksum of 00 00.
C29_Witness ==
  /\ op = "ReadSample"
  /\ initOk
  /\ old.Handler.PlatformCRC = "SHT3x_CheckCRC"
  /\ old.Handler.PlatformInit = NULL
  /\ result = SHT3x_OK
  /\ Received = <<0, 0, 0, 255, 255, 172>>

\* C30: every operation calls Send at most once, except Init, which calls it
\* at most twice (0x3093, then 0x30A2); Receive is called at most once per
\* operation except by ReadSample in SingleShot mode; and no operation other
\* than Init sends the soft-reset command 0x30A2.
C30_NoRetry ==
  /\ op # "Init" => Cardinality(Sends) <= 1
  /\ op = "Init" =>
       /\ Cardinality(Sends) <= 2
       /\ \A i, j \in Sends : i < j =>
            /\ calls[i].data = Wire(12435)
            /\ calls[j].data = Wire(12450)
       /\ Receives = {}
  /\ ~ (op = "ReadSample" /\ old.Handler.Mode = SHT3x_MODE_SINGLESHOT) =>
       Cardinality(Receives) <= 1
  /\ op # "Init" => \A i \in Sends : calls[i].data # Wire(12450)

\* C30 happens: a read in periodic mode met a failed Receive and stopped
\* after it.
C30_Witness ==
  /\ op = "ReadSample"
  /\ old.Handler.Mode = SHT3x_MODE_PERIODIC
  /\ Len(calls) = 2
  /\ calls[2].fn = "Receive"
  /\ calls[2].ret = -1
  /\ result = SHT3x_FAIL

\* A ReadSample is between its Send and its return.
Running == op \in {"ReadSample:loop", "ReadSample:check"}

\* An upper bound of the statements a running ReadSample has yet to execute.
Remaining ==
  IF op = "ReadSample:loop" THEN 22 - args.Counter
  ELSE IF op = "ReadSample:check" THEN 1
  ELSE 0

\* C31: provided every adapter call returns, ReadSample terminates whatever
\* the adapter returns: while it runs it always has a next statement to
\* execute (nothing but an adapter call can hold it up), every statement it
\* executes brings it nearer to its return, of which it is never more than 22
\* statements away, and at every moment it has made at most 1 Send, at most
\* 20 Receive calls and at most 20 Delay calls, each of 1 ms.
C31_ReadSampleTerminates ==
  /\ [](/\ Cardinality(Sends) <= 1
        /\ Cardinality(Receives) <= 20
        /\ Cardinality(Delays) <= 20
        /\ \A i \in Delays : calls[i].ms = 1)
  /\ [](Running => /\ Remaining \in 1..22
                   /\ ENABLED (LoopAttempt \/ LoopExit \/ ReadSampleFinish))
  /\ [][Running => Remaining' < Remaining]_vars

\* C31 happens: a read has returned after 20 failed attempts and 20 delays.
C31_Witness ==
  /\ op = "ReadSample"
  /\ Cardinality(Receives) = 20
  /\ Cardinality(Delays) = 20
  /\ \A i \in Receives : calls[i].ret # 0

\* The mode a mode-set call selects.
SelectedMode(c) ==
  CASE c.f = "SetModeSingleShot" -> SHT3x_MODE_SINGLESHOT
    [] c.f = "SetModePeriodic" -> SHT3x_MODE_PERIODIC
    [] c.f = "SetModeART" -> SHT3x_MODE_ART

\* Both callers have returned, and every Send returned 0.
RaceOver ==
  /\ \A c \in Callers : args.pc[c] = "done"
  /\ \A i \in 1..Len(calls) : calls[i].ret = 0

\* The command a ReadSample must send to a device in mode m is a single-shot
\* measurement command in SingleShot mode and Fetch Data otherwise.
RightFamily(cmd, m) == (cmd = FetchDataCmd) <=> (m # SHT3x_MODE_SINGLESHOT)

Last(s) == s[Len(s)]

C33_OkNeedsSuccessfulReceive ==
  (op = "ReadSample" /\ old.Handler.Mode = SHT3x_MODE_SINGLESHOT) =>
    /\ result \in {SHT3x_OK, SHT3x_CRC_ERROR} => \E i \in Receives : calls[i].ret = 0
    /\ (\A i \in Receives : calls[i].ret # 0) => Sample = old.Sample

\* The mode a mode-set function stores.
ModeOfOp ==
  CASE op = "SetModeSingleShot" -> SHT3x_MODE_SINGLESHOT
    [] op = "SetModePeriodic" -> SHT3x_MODE_PERIODIC
    [] op = "SetModeART" -> SHT3x_MODE_ART

\* A mode-set call whose Send returned 0.
ModeSetSent == op \in ModeSetOps /\ Sends # {} /\ ~SendFailed

\* C34: in any sequence of calls other than Init, each call leaves the
\* handle's mode as it found it unless it is a mode-set call whose Send
\* returned 0, which leaves the mode it sets; so the handle's mode is always
\* that of the latest mode-set call whose Send returned 0, or the initial one.
C34_ModeFollowsLastSuccessfulSet ==
  op \in (BusOps \cup {"SetAddressI2C"}) \ {"Init"} =>
    Handler.Mode = IF ModeSetSent THEN ModeOfOp ELSE old.Handler.Mode

\* C34 happens: a mode-set call whose Send failed has left another mode in
\* the handle, set by an earlier call.
C34_Witness ==
  /\ op = "SetModeART"
  /\ SendFailed
  /\ Handler.Mode = SHT3x_MODE_PERIODIC
  /\ sensor = SHT3x_MODE_PERIODIC

\* C35: a SetModeSingleShot whose Send returned 0 stores whatever
\* repeatability it was given; and when the handle's mode is SingleShot and
\* its repeatability is none of Low, Medium, High, ReadSample returns
\* InvalidParam, calls nothing of the adapter and leaves the sample as it was.
C35_BadStoredRepeatability ==
  /\ (op = "SetModeSingleShot" /\ ~SendFailed) =>
       /\ Handler.Mode = SHT3x_MODE_SINGLESHOT
       /\ Handler.Repeatability = args.Repeatability
  /\ (/\ op = "ReadSample"
      /\ old.Handler.Mode = SHT3x_MODE_SINGLESHOT
      /\ old.Handler.Repeatability \notin Repeatabilities) =>
       /\ result = SHT3x_INVALID_PARAM
       /\ calls = <<>>
       /\ Sample = old.Sample

\* C35 happens: a ReadSample has returned on a handle in SingleShot mode with
\* repeatability 3, while the device was in single-shot mode.
C35_Witness ==
  /\ op = "ReadSample"
  /\ old.Handler.Mode = SHT3x_MODE_SINGLESHOT
  /\ old.Handler.Repeatability = 3
  /\ sensor = SHT3x_MODE_SINGLESHOT
  /\ initOk
  /\ result = SHT3x_INVALID_PARAM

\* C36: within one call a Receive follows only a Send that returned 0: the
\* nearest Send before any Receive returned 0, and a ReadSample or ReadStatus
\* whose Send returned nonzero returns Fail without a Receive or a Delay.
C36_NoReceiveAfterFailedSend ==
  /\ \A i \in Receives :
       \E j \in Sends :
         /\ j < i
         /\ calls[j].ret = 0
         /\ \A k \in Sends : k < i => k <= j
  /\ (op \in {"ReadSample", "ReadStatus"} /\ SendFailed) =>
       /\ result = SHT3x_FAIL
       /\ Receives = {}
       /\ Delays = {}

\* C36 happens: a ReadSample on a handle in SingleShot mode has returned Fail
\* after its Send failed.
C36_Witness ==
  /\ op = "ReadSample"
  /\ old.Handler.Mode = SHT3x_MODE_SINGLESHOT
  /\ SendFailed
  /\ result = SHT3x_FAIL
  /\ Len(calls) = 1

\* C37: when ReadSample returns Fail, NoData or InvalidParam, every field of
\* the caller's sample is what it was before the call.
C37_FailedReadKeepsSample ==
  (op = "ReadSample" /\ result \in {SHT3x_FAIL, SHT3x_NO_DATA, SHT3x_INVALID_PARAM}) =>
    /\ Sample.TempRaw = old.Sample.TempRaw
    /\ Sample.HumRaw = old.Sample.HumRaw
    /\ Sample.TempCelsius = old.Sample.TempCelsius
    /\ Sample.TempFahrenheit = old.Sample.TempFahrenheit
    /\ Sample.HumidityPercent = old.Sample.HumidityPercent

\* C37 happens: a periodic read met a NACK after the adapter had put bytes in
\* the buffer, and the sample still holds what the caller had in it.
C37_Witness ==
  /\ op = "ReadSample"
  /\ result = SHT3x_NO_DATA
  /\ \E i \in Receives : calls[i].data = <<1, 2, 3, 4, 5, 6>>
  /\ Sample.TempRaw = 1
  /\ Sample.HumidityPercent = 5

\* C38: ReadSample, ReadStatus, ClearStatus, SetHeater and DeInit leave the
\* handle's address, mode, repeatability and speed as they were, whatever they
\* return; SetAddressI2C changes no field but the address, SetModeART no field
\* but the mode, and SetModeSingleShot never the speed.
C38_FieldsLeftAlone ==
  /\ op \in {"ReadSample", "ReadStatus", "ClearStatus", "SetHeater", "DeInit"} =>
       /\ Handler.AddressI2C = old.Handler.AddressI2C
       /\ ModeFieldsKept
  /\ op = "SetAddressI2C" =>
       [Handler EXCEPT !.AddressI2C = old.Handler.AddressI2C] = old.Handler
  /\ op = "SetModeART" => [Handler EXCEPT !.Mode = old.Handler.Mode] = old.Handler
  /\ op = "SetModeSingleShot" => Handler.Speed = old.Handler.Speed

\* C38 happens: a SetModeSingleShot has taken an initialised handle from
\* periodic mode at 10 mps to single-shot mode, and the speed is still 10 mps.
C38_Witness ==
  /\ op = "SetModeSingleShot"
  /\ initOk
  /\ old.Handler.Mode = SHT3x_MODE_PERIODIC
  /\ old.Handler.Speed = SHT3x_SPEED_10MPS
  /\ Handler.Mode = SHT3x_MODE_SINGLESHOT
  /\ Handler.Speed = SHT3x_SPEED_10MPS

\* The Send and Receive calls a ReadStatus and a ReadSample on handle h make
\* when every adapter call succeeds.
NextTransfers(h) ==
  LET cs == SHT3x_ReadStatus(h, 0, 0, 0, <<128, 16, 225>>, 0).calls
              \o SHT3x_ReadSample(h, CHOOSE s \in StartSamples : TRUE, 0,
                                  CHOOSE rx \in RxCoarse : rx.nFail = 0, 0, 0).calls
  IN {cs[i] : i \in {j \in DOMAIN cs : cs[j].fn \in {"Send", "Receive"}}}

\* C39: every Send and every Receive of a call carries the address the handle
\* holds (for Init, the one it holds once Init has set it), every Send has
\* length 2, and Receive is called with length 6 by ReadSample and 3 by
\* ReadStatus and by no other function; SetAddressI2C itself makes no
\* transfer, and the transfers of the calls after it carry the address it
\* left in the handle.
C39_TransfersUseHandleAddress ==
  /\ \A i \in Sends \cup Receives : calls[i].addr = Handler.AddressI2C
  /\ op # "Init" => Handler.AddressI2C = old.Handler.AddressI2C \/ op = "SetAddressI2C"
  /\ \A i \in Sends : calls[i].len = 2
  /\ \A i \in Receives :
       \/ op = "ReadSample" /\ calls[i].len = 6
       \/ op = "ReadStatus" /\ calls[i].len = 3
  /\ op = "SetAddressI2C" =>
       /\ calls = <<>>
       /\ initOk => \A c \in NextTransfers(Handler) : c.addr = Handler.AddressI2C

\* C39 happens: SetAddressI2C has changed the address of an initialised
\* handle from A to B, and the transfers of the next reads carry B.
C39_Witness ==
  /\ op = "SetAddressI2C"
  /\ initOk
  /\ old.Handler.AddressI2C = SHT3X_I2C_ADDRESS_A
  /\ Handler.AddressI2C = SHT3X_I2C_ADDRESS_B
  /\ Cardinality(NextTransfers(Handler)) >= 3
  /\ \A c \in NextTransfers(Handler) : c.addr = SHT3X_I2C_ADDRESS_B

====
